---- MODULE Spec2Model ----
(***************************************************************************)
(* Model of magic_umbrella: the rule based meeting classifier              *)
(* (categorization/rule_classifier.py) over the taxonomy loaded by         *)
(* config/loader.py.                                                       *)
(*                                                                         *)
(* A Python str is a sequence of one-character strings; None is the model  *)
(* value None.  Confidences are kept exact: a stage confidence is in       *)
(* hundredths (0.95 is 95) and the overall confidence of classify in       *)
(* thousandths (0.6 * 0.95 + 0.4 * 0.85 is 6 * 95 + 4 * 85 = 910).         *)
(* A reasoning string is the sequence of its pieces: the literal parts of  *)
(* the f-string and the characters of the interpolated name.               *)
(*                                                                         *)
(* The second half models the review and the reporting of the classified   *)
(* events: calendar/models.py, reporting/interactive_review.py and         *)
(* reporting/time_calculator.py.  Times are kept exact, in minutes: a      *)
(* datetime is minutes since the start of the period and a number of hours *)
(* is held as its number of minutes (1.5 hours is 90), so total_seconds()  *)
(* / 3600 and minutes / 60.0 are exact; binary rounding is not modelled.   *)
(***************************************************************************)
EXTENDS Integers, Sequences, FiniteSets, TLC

VARIABLES data, config, classifier, event, result, frame, pc, log,
          records, categorized, reviewer, calculator, report, history

\* the state of the review and of the reporting
reportVars == <<records, categorized, reviewer, calculator, report, history>>

vars == <<data, config, classifier, event, result, frame, pc, log,
          records, categorized, reviewer, calculator, report, history>>

\* None, where a str is expected: a sequence no str is equal to
None == <<"None">>

(***************************************************************************)
(* Bounds of the checked input space.                                      *)
(***************************************************************************)
MaxSubjectLen == 2
MaxAttendees == 2
MaxTags == 1
MaxLog == 3
MaxEdits == 2
MaxChoice == 3

\* the events a calculator holds at most
MaxHeld == 3

\* the calls of fill_unallocated_time on one reviewer at most
MaxCalls == 2

\* the number of items a user asks for at most
MaxItems == 3

(***************************************************************************)
(* Python str operations.                                                  *)
(***************************************************************************)
Max(a, b) == IF a >= b THEN a ELSE b

UpperLetters == <<"A", "B", "C", "I", "O", "Y">>
LowerLetters == <<"a", "b", "c", "i", "o", "y">>

\* str.lower() on one character
LowerChar(c) ==
    IF \E i \in 1..Len(UpperLetters) : UpperLetters[i] = c
    THEN LowerLetters[CHOOSE i \in 1..Len(UpperLetters) : UpperLetters[i] = c]
    ELSE c

\* str.lower()
Lower(s) == [i \in 1..Len(s) |-> LowerChar(s[i])]

\* s[i:j] with Python's 0-based half-open bounds, 0 <= i <= j <= len(s)
Slice(s, i, j) == IF j <= i THEN <<>> ELSE SubSeq(s, i + 1, j)

\* str.startswith(p)
StartsWith(s, p) == Len(p) <= Len(s) /\ SubSeq(s, 1, Len(p)) = p

\* str.endswith(p)
EndsWith(s, p) == Len(p) <= Len(s) /\ SubSeq(s, Len(s) - Len(p) + 1, Len(s)) = p

\* p in s  (substring test)
Contains(s, p) == \E i \in 0..(Len(s) - Len(p)) : SubSeq(s, i + 1, i + Len(p)) = p

IsSpace(c) == c = " "

\* str.strip()
Strip(s) ==
    LET keep == {i \in 1..Len(s) : ~IsSpace(s[i])}
    IN  IF keep = {} THEN <<>>
        ELSE LET lo == CHOOSE i \in keep : \A k \in keep : i <= k
                 hi == CHOOSE i \in keep : \A k \in keep : i >= k
             IN  SubSeq(s, lo, hi)

\* sep.join(parts)
RECURSIVE Join(_, _)
Join(parts, sep) ==
    IF parts = <<>> THEN <<>>
    ELSE IF Len(parts) = 1 THEN parts[1]
    ELSE parts[1] \o sep \o Join(Tail(parts), sep)

(***************************************************************************)
(* thefuzz: fuzz.partial_ratio(s1, s2), the library call of                *)
(* _detect_customer and _detect_project.  ratio is the normalised Indel    *)
(* similarity 2 * LCS / (len1 + len2); partial_ratio slides the shorter    *)
(* string over the longer one (the prefixes shorter than it, every full    *)
(* window, the suffixes) and keeps the best ratio; the score is            *)
(* int(round(100 * ratio)).                                                *)
(***************************************************************************)
\* one row of the longest-common-subsequence table: the row of a[1..i] from
\* the row of a[1..i-1]
RECURSIVE LcsRow(_, _, _, _)
LcsRow(prev, c, b, acc) ==
    LET j == Len(acc) + 1
    IN  IF j > Len(b) THEN acc
        ELSE LET diag == IF j = 1 THEN 0 ELSE prev[j - 1]
                 left == IF j = 1 THEN 0 ELSE acc[j - 1]
                 cell == IF b[j] = c THEN diag + 1 ELSE Max(prev[j], left)
             IN  LcsRow(prev, c, b, Append(acc, cell))

RECURSIVE LcsRows(_, _, _, _)
LcsRows(a, b, i, prev) ==
    IF i > Len(a) THEN prev
    ELSE LcsRows(a, b, i + 1, LcsRow(prev, a[i], b, <<>>))

Lcs(a, b) ==
    IF a = <<>> \/ b = <<>> THEN 0
    ELSE LcsRows(a, b, 1, [j \in 1..Len(b) |-> 0])[Len(b)]

\* round(): to the nearest integer, a tie to the even one
RoundDiv(n, d) ==
    LET q == n \div d
        r == n % d
    IN  IF 2 * r > d THEN q + 1
        ELSE IF 2 * r = d THEN q + (q % 2)
        ELSE q

\* 100 * fuzz.ratio, kept as the fraction 200 * LCS / (len1 + len2) until rounded
Ratio(a, b) == RoundDiv(200 * Lcs(a, b), Len(a) + Len(b))

\* the windows of the longer string that the shorter one is aligned with
Windows(short, long) ==
    LET m == Len(short)
        n == Len(long)
    IN  {Slice(long, 0, i) : i \in 1..(m - 1)}
          \cup {Slice(long, i, i + m) : i \in 0..(n - m - 1)}
          \cup {Slice(long, i, n) : i \in (n - m)..(n - 1)}

PartialRatioImpl(short, long) ==
    LET scores == {Ratio(short, w) : w \in Windows(short, long)}
    IN  CHOOSE x \in scores : \A y \in scores : x >= y

partial_ratio(s1, s2) ==
    IF s1 = <<>> /\ s2 = <<>> THEN 100
    ELSE IF s1 = <<>> \/ s2 = <<>> THEN 0
    ELSE IF Len(s1) < Len(s2) THEN PartialRatioImpl(s1, s2)
    ELSE IF Len(s2) < Len(s1) THEN PartialRatioImpl(s2, s1)
    ELSE Max(PartialRatioImpl(s1, s2), PartialRatioImpl(s2, s1))

(***************************************************************************)
(* config/loader.py: the taxonomy.  A Customer is [name, aliases,          *)
(* domains], a Project [name, aliases, active], a MeetingType [name,       *)
(* keywords, priority]; the lists are Python lists in file order.          *)
(***************************************************************************)
\* an insertion in front of the meeting types of equal priority: an unstable sort
insert_before_equal_priority(sorted, mt) ==
    LET before == {i \in 1..Len(sorted) : sorted[i].priority <= mt.priority}
        at == IF before = {} THEN Len(sorted) + 1
              ELSE CHOOSE i \in before : \A k \in before : i <= k
    IN  SubSeq(sorted, 1, at - 1) \o <<mt>> \o SubSeq(sorted, at, Len(sorted))

\* list.insert of one meeting type behind every one of priority >= its own
InsertByPriority(sorted, mt) ==
    LET before == {i \in 1..Len(sorted) : sorted[i].priority < mt.priority}
        at == IF before = {} THEN Len(sorted) + 1
              ELSE CHOOSE i \in before : \A k \in before : i <= k
    IN  SubSeq(sorted, 1, at - 1) \o <<mt>> \o SubSeq(sorted, at, Len(sorted))

\* sorted(meeting_types, key=lambda x: x.priority, reverse=True): stable
RECURSIVE SortByPriority(_, _)
SortByPriority(declared, sorted) ==
    IF declared = <<>> THEN sorted
    ELSE SortByPriority(Tail(declared), InsertByPriority(sorted, Head(declared)))

_load_meeting_types(types_data) == SortByPriority(types_data, <<>>)

\* the smallest member of a non-empty set of indices: the first hit of a loop
First(S) == CHOOSE i \in S : \A k \in S : i <= k

\* [x.name] + x.aliases
names_to_check(x) == <<x.name>> \o x.aliases

\* ConfigLoader.get_customer_by_name(name): the position in self.customers of
\* the Customer returned, 0 for None
get_customer_by_name(cfg, name) ==
    LET name_lower == Lower(name)
        hits == {i \in 1..Len(cfg.customers) :
                    \/ Lower(cfg.customers[i].name) = name_lower
                    \/ \E a \in 1..Len(cfg.customers[i].aliases) :
                           Lower(cfg.customers[i].aliases[a]) = name_lower}
    IN  IF hits = {} THEN 0 ELSE First(hits)

get_customers(cfg) == cfg.customers

\* get_projects without the filter on active
get_projects_unfiltered(cfg) == cfg.projects

\* ConfigLoader.get_projects(): the active projects, in file order
get_projects(cfg) == SelectSeq(cfg.projects, LAMBDA p : p.active)

get_meeting_types(cfg) == cfg.meeting_types

\* ConfigLoader.__init__ over the parsed YAML data
ConfigLoader(yaml) ==
    [customers |-> yaml.customers,
     projects |-> yaml.projects,
     meeting_types |-> _load_meeting_types(yaml.meeting_types)]

\* RuleBasedClassifier.__init__
RuleBasedClassifier(cfg) ==
    [customers |-> get_customers(cfg),
     projects |-> get_projects(cfg),
     meeting_types |-> get_meeting_types(cfg)]

(***************************************************************************)
(* categorization/rule_classifier.py                                       *)
(***************************************************************************)
\* RuleBasedClassifier._extract_domain
_extract_domain(email) ==
    LET ats == {i \in 1..Len(email) : email[i] = "@"}
    IN  IF ats = {} THEN <<>>
        ELSE LET last == CHOOSE i \in ats : \A k \in ats : i >= k
             IN  Lower(SubSeq(email, last + 1, Len(email)))

\* re.search(r"\[([^\]]+)\]", text): group 1 of the leftmost match, or None
bracket_search(text) ==
    LET close(i) == {j \in (i + 1)..Len(text) : text[j] = "]"}
        starts == {i \in 1..Len(text) :
                      /\ text[i] = "["
                      /\ close(i) # {}
                      /\ First(close(i)) >= i + 2}
    IN  IF starts = {} THEN None
        ELSE LET i == First(starts)
             IN  SubSeq(text, i + 1, First(close(i)) - 1)

\* Pattern 2: the first customer one of whose names prefixes the text (0: none)
prefix_match(clf, text) ==
    LET hits == {i \in 1..Len(clf.customers) :
                    \E n \in 1..Len(names_to_check(clf.customers[i])) :
                        LET name_lower == Lower(names_to_check(clf.customers[i])[n])
                        IN  \/ StartsWith(text, name_lower \o <<" ", "-">>)
                            \/ StartsWith(text, name_lower \o <<":">>)}
    IN  IF hits = {} THEN 0 ELSE First(hits)

\* Pattern 3, the inner loop over the names of customer i
RECURSIVE fuzzy_names(_, _, _, _)
fuzzy_names(i, names, text, best) ==
    IF names = <<>> THEN best
    ELSE LET score == partial_ratio(Lower(Head(names)), text)
         IN  fuzzy_names(i, Tail(names), text,
                 IF score > best.score /\ score >= 80
                 THEN [score |-> score, customer |-> i]
                 ELSE best)

\* Pattern 3, the outer loop from customer i on: [best_fuzzy_score, best_customer]
RECURSIVE fuzzy_customers(_, _, _, _)
fuzzy_customers(customers, i, text, best) ==
    IF i > Len(customers) THEN best
    ELSE fuzzy_customers(customers, i + 1, text,
             fuzzy_names(i, names_to_check(customers[i]), text, best))

fuzzy_match(clf, text) ==
    fuzzy_customers(clf.customers, 1, text, [score |-> 0, customer |-> 0])

\* Pattern 4: the first attendee whose domain a customer lists, and the first
\* such customer (0: none)
domain_match(clf, attendee_emails) ==
    LET lists(e, c) == \E d \in 1..Len(clf.customers[c].domains) :
                           clf.customers[c].domains[d] = _extract_domain(attendee_emails[e])
        hits == {e \in 1..Len(attendee_emails) : \E c \in 1..Len(clf.customers) : lists(e, c)}
    IN  IF hits = {} THEN 0
        ELSE First({c \in 1..Len(clf.customers) : lists(First(hits), c)})

\* Pattern 5: the customer named by the first Outlook category that names one (0: none)
category_match(cfg, categories) ==
    LET hits == {t \in 1..Len(categories) : get_customer_by_name(cfg, categories[t]) # 0}
    IN  IF hits = {} THEN 0 ELSE get_customer_by_name(cfg, categories[First(hits)])

\* f"{prefix}{name}{suffix}"
Quoted(prefix, name, suffix) == <<prefix>> \o name \o <<suffix>>

\* what a detection stage returns when nothing matched
NoMatch == <<None, 0, <<>>>>

\* whether a pattern returned; every return carries a reasoning text
Matched(found) == found[3] # <<>>

\* Pattern 1 of _detect_customer: the return of lines 111-115, NoMatch to fall through
by_bracket(cfg, text) ==
    LET match == bracket_search(text)
        customer == IF match = None THEN 0 ELSE get_customer_by_name(cfg, Strip(match))
    IN  IF customer = 0 THEN NoMatch
        ELSE <<cfg.customers[customer].name, 95,
               Quoted("Customer '", cfg.customers[customer].name, "' in brackets")>>

\* Pattern 2 of _detect_customer: the return of lines 118-131
by_prefix(clf, text) ==
    LET customer == prefix_match(clf, text)
    IN  IF customer = 0 THEN NoMatch
        ELSE <<clf.customers[customer].name, 90,
               Quoted("Customer '", clf.customers[customer].name, "' as prefix")>>

\* the combination with the fuzzy candidate preferred when the two disagree
by_fuzzy_then_domain(clf, text, attendee_emails) ==
    LET best == fuzzy_match(clf, text)
        best_customer == best.customer
        domain_customer == domain_match(clf, attendee_emails)
        name(i) == clf.customers[i].name
    IN  IF best_customer # 0 /\ domain_customer # 0 /\ name(best_customer) = name(domain_customer)
        THEN <<name(best_customer), 90,
               Quoted("Customer '", name(best_customer), "' matched by name and attendee domain")>>
        ELSE IF best_customer # 0
        THEN <<name(best_customer), IF best.score >= 90 THEN 65 ELSE 50,
               Quoted("Customer '", name(best_customer), "' fuzzy matched in text")>>
        ELSE IF domain_customer # 0
        THEN <<name(domain_customer), 75,
               Quoted("Customer '", name(domain_customer), "' matched by attendee domain")>>
        ELSE NoMatch

\* Patterns 3 and 4 of _detect_customer combined: the returns of lines 157-180
by_fuzzy_and_domain(clf, text, attendee_emails) ==
    LET best == fuzzy_match(clf, text)
        best_customer == best.customer
        domain_customer == domain_match(clf, attendee_emails)
        name(i) == clf.customers[i].name
    IN  IF best_customer # 0 /\ domain_customer # 0 /\ name(best_customer) = name(domain_customer)
        THEN <<name(best_customer), 90,
               Quoted("Customer '", name(best_customer), "' matched by name and attendee domain")>>
        ELSE IF domain_customer # 0
        THEN <<name(domain_customer), 75,
               Quoted("Customer '", name(domain_customer), "' matched by attendee domain")>>
        ELSE IF best_customer # 0
        THEN <<name(best_customer), IF best.score >= 90 THEN 65 ELSE 50,
               Quoted("Customer '", name(best_customer), "' fuzzy matched in text")>>
        ELSE NoMatch

\* Pattern 5 of _detect_customer: the return of lines 183-190
by_category(cfg, categories) ==
    LET customer == category_match(cfg, categories)
    IN  IF customer = 0 THEN NoMatch
        ELSE <<cfg.customers[customer].name, 70,
               Quoted("Customer '", cfg.customers[customer].name, "' from Outlook category")>>

\* the return of the first pattern, in the order given, that matched
first_matched(first, second, third, last) ==
    IF Matched(first) THEN first
    ELSE IF Matched(second) THEN second
    ELSE IF Matched(third) THEN third
    ELSE last

\* _detect_customer with the prefix pattern tried before the bracket pattern
detect_customer_prefix_first(cfg, clf, text, attendee_emails, categories) ==
    first_matched(by_prefix(clf, text),
                  by_bracket(cfg, text),
                  by_fuzzy_and_domain(clf, text, attendee_emails),
                  by_category(cfg, categories))

\* RuleBasedClassifier._detect_customer: <<customer name, confidence, reasoning>>,
\* the return of the first pattern that matches
_detect_customer(cfg, clf, text, attendee_emails, categories) ==
    first_matched(by_bracket(cfg, text),
                  by_prefix(clf, text),
                  by_fuzzy_and_domain(clf, text, attendee_emails),
                  by_category(cfg, categories))

\* RuleBasedClassifier._detect_project: <<project name, confidence, reasoning>>.
\* The loop returns at the first (project, name) that matches either way.
_detect_project(clf, text) ==
    LET exact(p, n) == Contains(text, Lower(names_to_check(clf.projects[p])[n]))
        fuzzy(p, n) == partial_ratio(Lower(names_to_check(clf.projects[p])[n]), text) >= 85
        hit(p) == {n \in 1..Len(names_to_check(clf.projects[p])) : exact(p, n) \/ fuzzy(p, n)}
        hits == {p \in 1..Len(clf.projects) : hit(p) # {}}
    IN  IF hits = {} THEN <<None, 0, <<>>>>
        ELSE LET p == First(hits)
                 n == First(hit(p))
             IN  IF exact(p, n)
                 THEN <<clf.projects[p].name, 85,
                        Quoted("Project '", clf.projects[p].name, "' mentioned")>>
                 ELSE <<clf.projects[p].name, 70,
                        Quoted("Project '", clf.projects[p].name, "' fuzzy matched")>>

\* internal_domains of _detect_category
internal_domains ==
    << <<"c", "o", "m", "p", "a", "n", "y", ".", "c", "o", "m">>,
       <<"m", "i", "c", "r", "o", "s", "o", "f", "t", ".", "c", "o", "m">> >>

\* all(any(email.endswith(domain) for domain in internal_domains) for email in attendee_emails)
all_internal(attendee_emails) ==
    \A e \in 1..Len(attendee_emails) :
        \E d \in 1..Len(internal_domains) : EndsWith(attendee_emails[e], internal_domains[d])

\* the loop of _detect_category over self.meeting_types (lines 247-260): the
\* return of the first type, and in it the first keyword, found in the text
by_keyword(clf, text) ==
    LET matches(t, k) == Contains(text, Lower(clf.meeting_types[t].keywords[k]))
        hit(t) == {k \in 1..Len(clf.meeting_types[t].keywords) : matches(t, k)}
        hits == {t \in 1..Len(clf.meeting_types) : hit(t) # {}}
    IN  IF hits = {} THEN NoMatch
        ELSE LET t == First(hits)
                 keyword == clf.meeting_types[t].keywords[First(hit(t))]
             IN  <<clf.meeting_types[t].name, 75,
                   <<"Keyword '">> \o keyword \o <<"' matched for ", clf.meeting_types[t].name>> >>

\* the internal-attendees heuristic and the default of _detect_category (lines 263-279)
by_attendees(attendee_emails) ==
    IF attendee_emails # <<>> /\ all_internal(attendee_emails)
    THEN <<"Internal Meeting", 60, <<"All attendees from internal domain">>>>
    ELSE <<"Uncategorized", 30, <<"No category patterns detected">>>>

\* the return of the keyword loop if it returned, else what follows it
keyword_or(found, otherwise) == IF Matched(found) THEN found ELSE otherwise

\* _detect_category with the keyword rules tried before the customer special case
detect_category_keywords_first(clf, text, attendee_emails, has_customer) ==
    keyword_or(by_keyword(clf, text),
               IF has_customer
               THEN <<"Customer Meeting", 85, <<"Meeting with external customer">>>>
               ELSE by_attendees(attendee_emails))

\* RuleBasedClassifier._detect_category: <<category name, confidence, reasoning>>.
\* A category name is a Python str held whole.
_detect_category(clf, text, attendee_emails, has_customer) ==
    IF has_customer
    THEN <<"Customer Meeting", 85, <<"Meeting with external customer">>>>
    ELSE keyword_or(by_keyword(clf, text), by_attendees(attendee_emails))

\* truthiness of a str or None: None and "" are false
Truthy(s) == s # None /\ s # <<>>

\* the weighted average of classify (lines 70-73), in thousandths
overall_confidence(customer, customer_confidence, category_confidence) ==
    IF Truthy(customer)
    THEN customer_confidence * 6 + category_confidence * 4
    ELSE category_confidence * 10

\* the reasoning text of classify (lines 76-84)
build_reasoning(customer_reason, project_reason, category_reason) ==
    LET reasons == (IF customer_reason # <<>> THEN <<customer_reason>> ELSE <<>>)
                     \o (IF project_reason # <<>> THEN <<project_reason>> ELSE <<>>)
                     \o (IF category_reason # <<>> THEN <<category_reason>> ELSE <<>>)
    IN  IF reasons # <<>> THEN Join(reasons, <<"; ">>)
        ELSE <<"No clear patterns detected">>

\* classify from line 69 on: the locals when it returns
classify_result(combined_text, attendee_emails, cust, proj, cat) ==
    [combined_text |-> combined_text,
     attendee_emails |-> attendee_emails,
     customer |-> cust[1], customer_confidence |-> cust[2], customer_reason |-> cust[3],
     project |-> proj[1], project_confidence |-> proj[2], project_reason |-> proj[3],
     category |-> cat[1], category_confidence |-> cat[2], category_reason |-> cat[3],
     confidence |-> overall_confidence(cust[1], cust[2], cat[2]),
     reasoning |-> build_reasoning(cust[3], proj[3], cat[3])]

\* classify from line 61 on, the customer detected
classify_stages(clf, combined_text, attendee_emails, cust) ==
    classify_result(combined_text, attendee_emails, cust,
                    _detect_project(clf, combined_text),
                    _detect_category(clf, combined_text, attendee_emails, cust[1] # None))

\* classify from line 56 on, the text and the attendee emails prepared
classify_text(cfg, clf, ev, combined_text, attendee_emails) ==
    classify_stages(clf, combined_text, attendee_emails,
                    _detect_customer(cfg, clf, combined_text, attendee_emails, ev.categories))

\* event.body or ""
body_or_empty(ev) == IF Truthy(ev.body) THEN ev.body ELSE <<>>

\* the locals of RuleBasedClassifier.classify when it returns
classify_locals(cfg, clf, ev) ==
    classify_text(cfg, clf, ev,
                  Lower(ev.subject \o <<" ">> \o body_or_empty(ev)),
                  SelectSeq(ev.attendees, LAMBDA a : a # <<>>))

\* a MeetingClassification that keeps the customer of the classification
\* returned before when this call detected none
classification_keeping_customer(locals) ==
    [customer |-> IF locals.customer = None THEN result.customer ELSE locals.customer,
     project |-> locals.project,
     category |-> locals.category,
     confidence |-> locals.confidence,
     reasoning |-> locals.reasoning,
     source |-> "rules"]

\* the MeetingClassification that classify builds from its locals (lines 86-93)
MeetingClassification(locals) ==
    [customer |-> locals.customer,
     project |-> locals.project,
     category |-> locals.category,
     confidence |-> locals.confidence,
     reasoning |-> locals.reasoning,
     source |-> "rules"]

\* RuleBasedClassifier.classify
classify(cfg, clf, ev) == MeetingClassification(classify_locals(cfg, clf, ev))

(***************************************************************************)
(* The checked inputs: the taxonomies a run may have loaded and the        *)
(* calendar events handed to classify.                                     *)
(***************************************************************************)
\* customers.yaml, projects.yaml and categories.yaml of an ordinary installation:
\* names in mixed case, an inactive project in front of the active ones, meeting
\* types out of priority order with a tie and one without keywords
TaxonomyOffice ==
    [customers |->
        << [name |-> <<"B", "a">>, aliases |-> << <<"b", "-", "b", "a">> >>,
            domains |-> << <<"x", ".", "i", "o">> >>],
           [name |-> <<"A">>, aliases |-> << <<"a", "a", "b", ":">> >>,
            domains |-> << <<"y", ".", "i", "o">>, <<"x", ".", "i", "o">> >>] >>,
     projects |->
        << [name |-> <<"a">>, aliases |-> <<>>, active |-> FALSE],
           [name |-> <<"B", "b">>, aliases |-> << <<"]">> >>, active |-> TRUE],
           [name |-> <<"b", ":", "-", "a">>, aliases |-> <<>>, active |-> TRUE] >>,
     meeting_types |->
        << [name |-> "Customer Meeting", keywords |-> << <<"]">> >>, priority |-> 0],
           [name |-> "Standup", keywords |-> << <<"b">> >>, priority |-> 1],
           [name |-> "Uncategorized", keywords |-> <<>>, priority |-> 0],
           [name |-> "Review", keywords |-> << <<"B", ":">>, <<"-">> >>, priority |-> 5],
           [name |-> "Planning", keywords |-> << <<":">> >>, priority |-> 1] >>]

\* a taxonomy at the edges of what the loader accepts: a customer whose name is
\* the empty string, names of several words, an alias another customer also has
TaxonomyEdge ==
    [customers |->
        << [name |-> <<>>, aliases |-> <<>>, domains |-> << <<>> >>],
           [name |-> <<"a", " ", "b">>, aliases |-> << <<"b">> >>,
            domains |-> << <<"Y", ".", "i", "o">> >>],
           [name |-> <<"b", "b">>, aliases |-> << <<"B">> >>, domains |-> <<>>] >>,
     projects |->
        << [name |-> <<"b", " ", "a">>, aliases |-> <<>>, active |-> TRUE],
           [name |-> <<"a">>, aliases |-> <<>>, active |-> FALSE] >>,
     meeting_types |->
        << [name |-> "Standup", keywords |-> << <<"a">> >>, priority |-> 0],
           [name |-> "Review", keywords |-> << <<"[">>, <<"a">> >>, priority |-> 0] >>]

\* no configuration files at all: _load_yaml returns {} for each
TaxonomyEmpty == [customers |-> <<>>, projects |-> <<>>, meeting_types |-> <<>>]

Taxonomies == {TaxonomyOffice, TaxonomyEdge, TaxonomyEmpty}

Alphabet == {"a", "B", " ", "[", "]", ":", "-"}

\* every str over Alphabet of at most n characters
RECURSIVE StringsUpTo(_)
StringsUpTo(n) ==
    IF n = 0 THEN {<<>>}
    ELSE LET shorter == StringsUpTo(n - 1)
         IN  shorter \cup {Append(s, c) : s \in {t \in shorter : Len(t) = n - 1}, c \in Alphabet}

\* every list over S of at most n elements
RECURSIVE ListsUpTo(_, _)
ListsUpTo(S, n) ==
    IF n = 0 THEN {<<>>}
    ELSE LET shorter == ListsUpTo(S, n - 1)
         IN  shorter \cup {Append(s, x) : s \in {t \in shorter : Len(t) = n - 1}, x \in S}

Subjects == StringsUpTo(MaxSubjectLen)

Bodies ==
    { None,
      <<>>,
      <<"[", "b", "A", " ", "]">>,
      <<"a", "B", "-", "a">>,
      <<"-", " ", "b">>,
      <<"]">> }

Emails ==
    { <<>>,
      <<"u", "@", "x", ".", "i", "o">>,
      <<"u", "@", "Y", ".", "I", "O">>,
      <<"u", "@", "c", "o", "m", "p", "a", "n", "y", ".", "c", "o", "m">>,
      <<"v", "@", "m", "i", "c", "r", "o", "s", "o", "f", "t", ".", "c", "o", "m">>,
      <<"u", "@", "e", "v", "i", "l", "c", "o", "m", "p", "a", "n", "y", ".", "c", "o", "m">> }

Tags == { <<"a">>, <<"B", "B">> }

\* CalendarEvent, the fields classify reads: subject, body, the attendees'
\* emails in order, categories
CalendarEvent(subject, body, attendees, categories) ==
    [subject |-> subject, body |-> body, attendees |-> attendees, categories |-> categories]

\* events that vary the text, with no attendee or one of a customer's domain
TextEvents ==
    {CalendarEvent(s, b, a, <<>>) :
        s \in Subjects, b \in Bodies, a \in {<<>>, << <<"u", "@", "x", ".", "i", "o">> >>}}

\* events that vary the attendees and the Outlook categories, over a few texts
PeopleEvents ==
    {CalendarEvent(s, None, a, t) :
        s \in {<<>>, <<"[", "a", "]", "B", "a">>, <<" ">>},
        a \in ListsUpTo(Emails, MaxAttendees),
        t \in ListsUpTo(Tags, MaxTags)}

Events == TextEvents \cup PeopleEvents

\* events classified again and again by one classifier
RepeatEvents ==
    {CalendarEvent(s, None, a, <<>>) :
        s \in {<<"[", "a", "]", "B", "a">>, <<"a", ":">>, <<"-", "B">>},
        a \in {<<>>, << <<"u", "@", "x", ".", "i", "o">> >>}}

(***************************************************************************)
(* calendar/models.py                                                      *)
(***************************************************************************)
\* CalendarEvent.__init__(**data): the fields the model reads, duration_hours
\* 0.0 when the caller gives none; the duration is computed only when it is 0.0
CalendarEvent__init__(kwargs) ==
    [kwargs EXCEPT !.duration_hours =
        IF kwargs.duration_hours = 0 THEN kwargs.end - kwargs.start
        ELSE kwargs.duration_hours]

\* CategorizedEvent(event=..., customer=..., ...) as demo.py and
\* interactive_demo.py build it from a MeetingClassification
CategorizedEvent(ev, classification) ==
    [event |-> ev,
     customer |-> classification.customer,
     project |-> classification.project,
     category |-> classification.category,
     confidence |-> classification.confidence,
     classification_method |-> classification.source,
     notes |-> classification.reasoning,
     prep_time_hours |-> 0,
     followup_time_hours |-> 0]

\* CategorizedEvent.total_hours
total_hours(e) == e.event.duration_hours + e.prep_time_hours + e.followup_time_hours

(***************************************************************************)
(* reporting/interactive_review.py.  A dict is a function; a method that   *)
(* edits an event returns the event as it leaves it, the adjustments map   *)
(* as it leaves it, and the calls of _save_adjustment it made.             *)
(***************************************************************************)
EmptyDict == [k \in {} |-> 0]

\* old.update(new)
DictUpdate(old, new) == new @@ old

\* InteractiveReviewer.__init__
InteractiveReviewer(cfg) ==
    [config |-> cfg, adjustments |-> EmptyDict, background_allocations |-> EmptyDict]

\* _save_adjustment that stores the adjustment in place of the entry
save_adjustment_replacing(adjustments, event_id, adjustment) ==
    [k \in DOMAIN adjustments \cup {event_id} |->
        IF k = event_id THEN adjustment ELSE adjustments[k]]

\* InteractiveReviewer._save_adjustment: self.adjustments after the call
_save_adjustment(adjustments, event_id, adjustment) ==
    [k \in DOMAIN adjustments \cup {event_id} |->
        IF k = event_id
        THEN DictUpdate(IF event_id \in DOMAIN adjustments THEN adjustments[event_id]
                        ELSE EmptyDict,
                        adjustment)
        ELSE adjustments[k]]

\* what an edit that the user cancelled leaves
Untouched(adjustments, e) == [event |-> e, adjustments |-> adjustments, saved |-> <<>>]

\* the event with one field set, and the adjustment saved under the event's id
Saved(adjustments, e, field) ==
    [event |-> e,
     adjustments |-> _save_adjustment(adjustments, e.event.id, field :> e[field]),
     saved |-> <<[id |-> e.event.id, field |-> field, value |-> e[field]]>>]

\* [x.name for x in xs]
RECURSIVE NamesOf(_)
NamesOf(xs) == IF xs = <<>> THEN <<>> ELSE <<Head(xs).name>> \o NamesOf(Tail(xs))

NoneInternal ==
    <<"N", "o", "n", "e", " ", "(", "I", "n", "t", "e", "r", "n", "a", "l", ")">>

NoneChoice == <<"N", "o", "n", "e">>

\* _change_customer that also clears the project of the event
change_customer_clearing_project(cfg, adjustments, e, choice) ==
    LET customers == Append(NamesOf(get_customers(cfg)), NoneInternal)
    IN  IF choice > 0 /\ choice <= Len(customers)
        THEN Saved(adjustments,
                   [e EXCEPT !.customer = IF customers[choice] = NoneInternal THEN None
                                          ELSE customers[choice],
                             !.project = None,
                             !.classification_method = "manual"],
                   "customer")
        ELSE Untouched(adjustments, e)

\* InteractiveReviewer._change_customer, choice the number entered
_change_customer(cfg, adjustments, e, choice) ==
    LET customers == Append(NamesOf(get_customers(cfg)), NoneInternal)
    IN  IF choice > 0 /\ choice <= Len(customers)
        THEN Saved(adjustments,
                   [e EXCEPT !.customer = IF customers[choice] = NoneInternal THEN None
                                          ELSE customers[choice],
                             !.classification_method = "manual"],
                   "customer")
        ELSE Untouched(adjustments, e)

\* InteractiveReviewer._change_project
_change_project(cfg, adjustments, e, choice) ==
    LET projects == Append(NamesOf(get_projects(cfg)), NoneChoice)
    IN  IF choice > 0 /\ choice <= Len(projects)
        THEN Saved(adjustments,
                   [e EXCEPT !.project = IF projects[choice] = NoneChoice THEN None
                                         ELSE projects[choice],
                             !.classification_method = "manual"],
                   "project")
        ELSE Untouched(adjustments, e)

\* InteractiveReviewer._change_category
_change_category(cfg, adjustments, e, choice) ==
    LET categories == NamesOf(get_meeting_types(cfg))
    IN  IF choice > 0 /\ choice <= Len(categories)
        THEN Saved(adjustments,
                   [e EXCEPT !.category = categories[choice],
                             !.classification_method = "manual"],
                   "category")
        ELSE Untouched(adjustments, e)

\* _add_prep_time without the test minutes > 0
add_prep_time_unguarded(adjustments, e, minutes) ==
    Saved(adjustments, [e EXCEPT !.prep_time_hours = minutes], "prep_time_hours")

\* InteractiveReviewer._add_prep_time, minutes the number entered
_add_prep_time(adjustments, e, minutes) ==
    IF minutes > 0
    THEN Saved(adjustments, [e EXCEPT !.prep_time_hours = minutes], "prep_time_hours")
    ELSE Untouched(adjustments, e)

\* _add_followup_time that records the hours as prep time
add_followup_time_saved_as_prep(adjustments, e, minutes) ==
    IF minutes > 0
    THEN [event |-> [e EXCEPT !.followup_time_hours = minutes],
          adjustments |->
              _save_adjustment(adjustments, e.event.id, "prep_time_hours" :> minutes),
          saved |-> <<[id |-> e.event.id, field |-> "prep_time_hours", value |-> minutes]>>]
    ELSE Untouched(adjustments, e)

\* InteractiveReviewer._add_followup_time
_add_followup_time(adjustments, e, minutes) ==
    IF minutes > 0
    THEN Saved(adjustments, [e EXCEPT !.followup_time_hours = minutes], "followup_time_hours")
    ELSE Untouched(adjustments, e)

(***************************************************************************)
(* reporting/time_calculator.py.  The operators take self.events, the      *)
(* list of the CategorizedEvent objects the calculator holds.              *)
(***************************************************************************)
\* TimeAllocationCalculator.__init__
TimeAllocationCalculator == [events |-> <<>>]

\* TimeAllocationCalculator.add_events: self.events.extend(events)
add_events(calc, events) == [calc EXCEPT !.events = calc.events \o events]

\* sum(event.total_hours for event in events)
RECURSIVE SumHours(_)
SumHours(events) ==
    IF events = <<>> THEN 0 ELSE total_hours(Head(events)) + SumHours(Tail(events))

\* TimeAllocationCalculator.get_total_meeting_hours
get_total_meeting_hours(events) == SumHours(events)

Internal == <<"I", "n", "t", "e", "r", "n", "a", "l">>

General == <<"G", "e", "n", "e", "r", "a", "l">>

All == <<"A", "l", "l">>

\* x or default, of an Optional[str]
Or(x, default) == IF Truthy(x) THEN x ELSE default

\* AddTo that stores the hours of the event in place of adding them
add_to_overwriting(grouped, key, e) ==
    IF \E i \in 1..Len(grouped) : grouped[i].key = key
    THEN [i \in 1..Len(grouped) |->
             IF grouped[i].key = key
             THEN [key |-> key,
                   hours |-> total_hours(e),
                   count |-> grouped[i].count + 1,
                   events |-> Append(grouped[i].events, e)]
             ELSE grouped[i]]
    ELSE Append(grouped, [key |-> key, hours |-> total_hours(e), count |-> 1, events |-> <<e>>])

\* data[key]["hours"] += ...; ["count"] += 1; ["events"].append(event) on a
\* defaultdict, which keeps its keys in the order of their first use
AddTo(grouped, key, e) ==
    IF \E i \in 1..Len(grouped) : grouped[i].key = key
    THEN [i \in 1..Len(grouped) |->
             IF grouped[i].key = key
             THEN [key |-> key,
                   hours |-> grouped[i].hours + total_hours(e),
                   count |-> grouped[i].count + 1,
                   events |-> Append(grouped[i].events, e)]
             ELSE grouped[i]]
    ELSE Append(grouped, [key |-> key, hours |-> total_hours(e), count |-> 1, events |-> <<e>>])

\* the loop over self.events, keys[i] the key of events[i]
RECURSIVE Accumulate(_, _, _)
Accumulate(grouped, events, keys) ==
    IF events = <<>> THEN grouped
    ELSE Accumulate(AddTo(grouped, Head(keys), Head(events)), Tail(events), Tail(keys))

\* the characters of the model in the order of their code points
CodePointOrder ==
    <<" ", "(", ")", "-", ".", ":", "@",
      "A", "B", "C", "D", "E", "F", "G", "H", "I", "J", "K", "L", "M",
      "N", "O", "P", "Q", "R", "S", "T", "U", "V", "W", "X", "Y", "Z",
      "[", "]",
      "a", "b", "c", "d", "e", "f", "g", "h", "i", "j", "k", "l", "m",
      "n", "o", "p", "q", "r", "s", "t", "u", "v", "w", "x", "y", "z">>

\* the rank of ord(c) among the characters of the model
Ord(c) == CHOOSE i \in 1..Len(CodePointOrder) : CodePointOrder[i] = c

\* a < b of two str
StrLess(a, b) ==
    \E k \in 1..(Len(b)) :
        /\ \A j \in 1..(k - 1) : j <= Len(a) /\ a[j] = b[j]
        /\ k > Len(a) \/ Ord(a[k]) < Ord(b[k])

\* InsertByHours of a sort that is not stable: the allocation goes before those
\* of total_hours equal to its own
insert_by_hours_before_equal(sorted, a) ==
    LET before == {i \in 1..Len(sorted) : sorted[i].total_hours <= a.total_hours}
        at == IF before = {} THEN Len(sorted) + 1 ELSE First(before)
    IN  SubSeq(sorted, 1, at - 1) \o <<a>> \o SubSeq(sorted, at, Len(sorted))

\* one step of a stable sort by total_hours descending: the allocation goes
\* behind every one of total_hours >= its own
InsertByHours(sorted, a) ==
    LET before == {i \in 1..Len(sorted) : sorted[i].total_hours < a.total_hours}
        at == IF before = {} THEN Len(sorted) + 1 ELSE First(before)
    IN  SubSeq(sorted, 1, at - 1) \o <<a>> \o SubSeq(sorted, at, Len(sorted))

\* sorted(allocations, key=lambda x: x.total_hours, reverse=True)
RECURSIVE SortByHours(_, _)
SortByHours(allocations, sorted) ==
    IF allocations = <<>> THEN sorted
    ELSE SortByHours(Tail(allocations), InsertByHours(sorted, Head(allocations)))

\* CustomerHoursLess of a sort by total_hours alone
customer_hours_less_by_hours(a, b) == a.total_hours > b.total_hours

\* (a.customer, -a.total_hours) < (b.customer, -b.total_hours)
CustomerHoursLess(a, b) ==
    \/ StrLess(a.customer, b.customer)
    \/ a.customer = b.customer /\ a.total_hours > b.total_hours

InsertByCustomerHours(sorted, a) ==
    LET before == {i \in 1..Len(sorted) : CustomerHoursLess(a, sorted[i])}
        at == IF before = {} THEN Len(sorted) + 1 ELSE First(before)
    IN  SubSeq(sorted, 1, at - 1) \o <<a>> \o SubSeq(sorted, at, Len(sorted))

\* sorted(allocations, key=lambda x: (x.customer, -x.total_hours))
RECURSIVE SortByCustomerHours(_, _)
SortByCustomerHours(allocations, sorted) ==
    IF allocations = <<>> THEN sorted
    ELSE SortByCustomerHours(Tail(allocations), InsertByCustomerHours(sorted, Head(allocations)))

TimeAllocation(customer, project, category, entry) ==
    [customer |-> customer, project |-> project, category |-> category,
     total_hours |-> entry.hours, meeting_count |-> entry.count, events |-> entry.events]

\* TimeAllocationCalculator.get_by_customer
get_by_customer(events) ==
    LET keys == [i \in 1..Len(events) |-> Or(events[i].customer, Internal)]
        grouped == Accumulate(<<>>, events, keys)
    IN  SortByHours([i \in 1..Len(grouped) |->
                        TimeAllocation(grouped[i].key, None, "All", grouped[i])],
                    <<>>)

\* TimeAllocationCalculator.get_by_category
get_by_category(events) ==
    LET keys == [i \in 1..Len(events) |-> events[i].category]
        grouped == Accumulate(<<>>, events, keys)
    IN  SortByHours([i \in 1..Len(grouped) |->
                        TimeAllocation(All, None, grouped[i].key, grouped[i])],
                    <<>>)

\* TimeAllocationCalculator.get_by_customer_and_project
get_by_customer_and_project(events) ==
    LET keys == [i \in 1..Len(events) |->
                    <<Or(events[i].customer, Internal), Or(events[i].project, General)>>]
        grouped == Accumulate(<<>>, events, keys)
    IN  SortByCustomerHours(
            [i \in 1..Len(grouped) |->
                TimeAllocation(grouped[i].key[1],
                               IF grouped[i].key[2] # General THEN grouped[i].key[2] ELSE None,
                               "All", grouped[i])],
            <<>>)

\* a float that is a quotient, kept exact as numerator over denominator
Quotient(num, den) == [num |-> num, den |-> den]

\* sum(event.total_hours for event in events if event.customer == customer)
RECURSIVE CustomerHours(_, _)
CustomerHours(events, customer) ==
    IF events = <<>> THEN 0
    ELSE (IF Head(events).customer = customer THEN total_hours(Head(events)) ELSE 0)
             + CustomerHours(Tail(events), customer)

\* TimeAllocationCalculator.get_customer_percentage
get_customer_percentage(events, customer) ==
    IF get_total_meeting_hours(events) = 0 THEN Quotient(0, 1)
    ELSE Quotient(CustomerHours(events, customer) * 100, get_total_meeting_hours(events))

\* get_summary_stats that counts every bucket of get_by_customer
summary_stats_counting_internal(events) ==
    IF events = <<>>
    THEN [total_meetings |-> 0, total_hours |-> 0, avg_meeting_length |-> Quotient(0, 1),
          customer_count |-> 0, category_count |-> 0]
    ELSE [total_meetings |-> Len(events),
          total_hours |-> get_total_meeting_hours(events),
          avg_meeting_length |-> Quotient(get_total_meeting_hours(events), Len(events)),
          customer_count |-> Len(get_by_customer(events)),
          category_count |-> Len(get_by_category(events))]

\* TimeAllocationCalculator.get_summary_stats
get_summary_stats(events) ==
    IF events = <<>>
    THEN [total_meetings |-> 0, total_hours |-> 0, avg_meeting_length |-> Quotient(0, 1),
          customer_count |-> 0, category_count |-> 0]
    ELSE [total_meetings |-> Len(events),
          total_hours |-> get_total_meeting_hours(events),
          avg_meeting_length |-> Quotient(get_total_meeting_hours(events), Len(events)),
          customer_count |->
              Cardinality({b \in 1..Len(get_by_customer(events)) :
                              get_by_customer(events)[b].customer # Internal}),
          category_count |-> Len(get_by_category(events))]

\* max(0.0, x)
Max0(x) == IF x > 0 THEN x ELSE 0

\* the work week of the normalisation
WorkDays == 5

\* get_unallocated_hours that does not cut off at 0
unallocated_hours_uncut(total_meeting_hours, work_hours_per_week, period_days) ==
    Quotient(work_hours_per_week * period_days - WorkDays * total_meeting_hours, WorkDays)

\* max(0.0, (work_hours_per_week / 5) * period_days - total_meeting_hours), the
\* figure of get_unallocated_hours and of fill_unallocated_time, in fifths
unallocated_hours(total_meeting_hours, work_hours_per_week, period_days) ==
    Quotient(Max0(work_hours_per_week * period_days - WorkDays * total_meeting_hours), WorkDays)

\* TimeAllocationCalculator.get_unallocated_hours
get_unallocated_hours(events, work_hours_per_week, period_days) ==
    unallocated_hours(get_total_meeting_hours(events), work_hours_per_week, period_days)

(***************************************************************************)
(* reporting/interactive_review.py, the filling of the unallocated time.   *)
(* A percentage is a number of percent; hours allotted are kept exact, as  *)
(* the quotient percentage * unallocated_hours / 100.                      *)
(***************************************************************************)
\* remaining_percentage = 100.0, and the 100.0 of percentage / 100.0
Percent == 100

CustomerTag == <<"[", "C", "u", "s", "t", "o", "m", "e", "r", "]", " ">>

ProjectTag == <<"[", "P", "r", "o", "j", "e", "c", "t", "]", " ">>

RECURSIVE Tagged(_, _)
Tagged(tag, names) ==
    IF names = <<>> THEN <<>> ELSE <<tag \o Head(names)>> \o Tagged(tag, Tail(names))

\* options of _prompt_background_projects
Options(cfg) ==
    Tagged(CustomerTag, NamesOf(get_customers(cfg)))
        \o Tagged(ProjectTag, NamesOf(get_projects(cfg)))

\* the locals of fill_unallocated_time and of _prompt_background_projects in it
Locals(cfg, total_meeting_hours, work_hours_per_week, period_days) ==
    [total_meeting_hours |-> total_meeting_hours,
     work_hours_per_week |-> work_hours_per_week,
     period_days |-> period_days,
     unallocated_hours |->
         unallocated_hours(total_meeting_hours, work_hours_per_week, period_days),
     allocations |-> EmptyDict, options |-> Options(cfg),
     num_items |-> 0, i |-> 0, remaining_percentage |-> Percent,
     item_name |-> None, percentage |-> 0]

\* the percentage entered, taken as it is
percentage_as_entered(percentage, remaining_percentage) == percentage

\* if percentage > remaining_percentage: percentage = remaining_percentage
Clamped(percentage, remaining_percentage) ==
    IF percentage > remaining_percentage THEN remaining_percentage ELSE percentage

\* (percentage / 100.0) * unallocated_hours
Hours(percentage, unallocated) ==
    Quotient(percentage * unallocated.num, Percent * unallocated.den)

\* Allot that leaves remaining_percentage as it is
allot_without_deducting(locals, percentage) ==
    [locals EXCEPT !.percentage = percentage,
                   !.allocations =
                       DictUpdate(@, locals.item_name
                                         :> Hours(percentage, locals.unallocated_hours))]

\* the rest of an iteration once the percentage is known: the hours are stored
\* under the item's name and the percentage is taken off the remainder
Allot(locals, percentage) ==
    [locals EXCEPT !.percentage = percentage,
                   !.allocations =
                       DictUpdate(@, locals.item_name
                                         :> Hours(percentage, locals.unallocated_hours)),
                   !.remaining_percentage = @ - percentage]

\* if remaining_percentage <= 0: break
Broke(locals) == locals.remaining_percentage <= 0

\* range(num_items) has no item after item i
LastItem(locals) == locals.i >= locals.num_items - 1

\* the loop goes to its next item
Continued(locals) == [locals EXCEPT !.i = @ + 1]

\* background_allocations that takes the allocations after every selection
allocations_saved_at_once(background_allocations, locals, returns) == locals.allocations

\* self.background_allocations = allocations, once the prompts have returned
Committed(background_allocations, locals, returns) ==
    IF returns THEN locals.allocations ELSE background_allocations

(***************************************************************************)
(* The state machine.  data is what the YAML files hold; a ConfigLoader is *)
(* constructed over it and a RuleBasedClassifier over the loader; the      *)
(* caller hands the classifier an event and classify returns the           *)
(* MeetingClassification.  frame holds the locals of the last call of      *)
(* classify, log the calls made so far, each with its event and result.    *)
(***************************************************************************)
NoResult ==
    [customer |-> None, project |-> None, category |-> "Uncategorized",
     confidence |-> 0, reasoning |-> <<>>, source |-> "rules"]

NoFrame ==
    [combined_text |-> <<>>, attendee_emails |-> <<>>,
     customer |-> None, customer_confidence |-> 0, customer_reason |-> <<>>,
     project |-> None, project_confidence |-> 0, project_reason |-> <<>>,
     category |-> "Uncategorized", category_confidence |-> 0, category_reason |-> <<>>,
     confidence |-> 0, reasoning |-> <<>>]

\* no calculator query made yet
NoReport == [query |-> "none"]

\* what the review has done so far: the number of edits, the method called last
\* and the event it was called on, the calls of _save_adjustment in order, each
\* with the event edited (0: none), the events an edit was applied to, and the
\* events as they were classified
NoHistory ==
    [edits |-> 0,
     last |-> [method |-> "none", index |-> 0, raised |-> FALSE],
     overrides |-> <<>>,
     edited |-> {},
     fresh |-> <<>>]

\* no events fetched, a reviewer and a calculator just constructed
ReportIdle ==
    /\ records = <<>>
    /\ categorized = <<>>
    /\ reviewer = InteractiveReviewer(config)
    /\ calculator = TimeAllocationCalculator
    /\ report = NoReport
    /\ history = NoHistory

InitOver(events) ==
    /\ data \in Taxonomies
    /\ config = ConfigLoader(data)
    /\ classifier = RuleBasedClassifier(config)
    /\ event \in events
    /\ result = NoResult
    /\ frame = NoFrame
    /\ pc = "ready"
    /\ log = <<>>
    /\ ReportIdle

Init == InitOver(Events)

\* classifier.classify(event): the event and the taxonomy are only read
Classify ==
    /\ pc = "ready"
    /\ frame' = classify_locals(config, classifier, event)
    /\ result' = MeetingClassification(frame')
    /\ pc' = "done"
    /\ log' = Append(log, [event |-> event, result |-> result'])
    /\ UNCHANGED <<data, config, classifier, event>>
    /\ UNCHANGED reportVars

\* the caller takes the next event to classify
Submit(ev) ==
    /\ pc = "done"
    /\ Len(log) < MaxLog
    /\ event' = ev
    /\ pc' = "ready"
    /\ UNCHANGED <<data, config, classifier, result, frame, log>>
    /\ UNCHANGED reportVars

Next == Classify

Spec == Init /\ [][Next]_vars

\* one classifier called repeatedly
InitRepeat == InitOver(RepeatEvents)

NextRepeat == Classify \/ \E ev \in RepeatEvents : Submit(ev)

SpecRepeat == InitRepeat /\ [][NextRepeat]_vars

(***************************************************************************)
(* The claims.  Each is stated over the state after a call of classify:    *)
(* event is the record classified, frame the locals of the call (the       *)
(* combined text, the attendee emails and what each detection stage        *)
(* returned), result the MeetingClassification returned.                   *)
(***************************************************************************)
Returned == pc = "done"

\* the regular expression \[([^\]]+)\] matches text[i..j]
IsBracketMatch(text, i, j) ==
    /\ i >= 1 /\ j >= i + 2 /\ j <= Len(text)
    /\ text[i] = "["
    /\ text[j] = "]"
    /\ \A k \in (i + 1)..(j - 1) : text[k] # "]"

\* the whitespace-stripped content of the leftmost bracketed substring: a set
\* with that one token, empty when there is no bracketed substring
FirstBracketTokens(text) ==
    {Strip(SubSeq(text, p[1] + 1, p[2] - 1)) :
        p \in {q \in (1..Len(text)) \X (1..Len(text)) :
                  /\ IsBracketMatch(text, q[1], q[2])
                  /\ \A i \in 1..(q[1] - 1), j \in 1..Len(text) : ~IsBracketMatch(text, i, j)}}

\* token is, case-insensitively, the name or an alias of the customer
CustomerNamed(customer, token) ==
    \/ Lower(customer.name) = Lower(token)
    \/ \E a \in 1..Len(customer.aliases) : Lower(customer.aliases[a]) = Lower(token)

\* the customers of the taxonomy, by position in customers.yaml, that token names
CustomersNamed(token) ==
    {c \in 1..Len(data.customers) : CustomerNamed(data.customers[c], token)}

\* C1: when the first bracketed substring of the combined text, stripped, is the
\* name or an alias of a customer, _detect_customer returns that customer (the
\* first in file order when several carry the name) at confidence 0.95,
\* whatever the prefix, fuzzy, attendee-domain and tag patterns would match.
C1_BracketWins ==
    Returned =>
        \A token \in FirstBracketTokens(frame.combined_text) :
            CustomersNamed(token) # {} =>
                /\ frame.customer = data.customers[First(CustomersNamed(token))].name
                /\ frame.customer_confidence = 95

\* C1 witness: a bracketed customer wins although the fuzzy pattern and the
\* attendee domain both point at another customer
C1_Witness ==
    /\ Returned
    /\ frame.customer_confidence = 95
    /\ \E token \in FirstBracketTokens(frame.combined_text) : CustomersNamed(token) # {}
    /\ fuzzy_match(classifier, frame.combined_text).customer # 0
    /\ classifier.customers[fuzzy_match(classifier, frame.combined_text).customer].name
           # frame.customer
    /\ domain_match(classifier, frame.attendee_emails) # 0
    /\ classifier.customers[domain_match(classifier, frame.attendee_emails)].name
           # frame.customer

\* some keyword of the meeting type occurs in the text
RuleMatches(meeting_type, text) ==
    \E k \in 1..Len(meeting_type.keywords) : Contains(text, Lower(meeting_type.keywords[k]))

\* the part of an email address after its last "@" (nothing when it has none)
DomainOf(email) ==
    IF \E i \in 1..Len(email) : email[i] = "@"
    THEN SubSeq(email, 1 + CHOOSE i \in 1..Len(email) :
                                /\ email[i] = "@"
                                /\ \A k \in (i + 1)..Len(email) : email[k] # "@",
                Len(email))
    ELSE <<>>

InternalAllowList ==
    { <<"c", "o", "m", "p", "a", "n", "y", ".", "c", "o", "m">>,
      <<"m", "i", "c", "r", "o", "s", "o", "f", "t", ".", "c", "o", "m">> }

\* C2: a non-null customer forces the category "Customer Meeting" at 0.85, also
\* when a category keyword occurs in the text or all attendees are internal; with
\* a null customer the category is "Customer Meeting" only if a category rule of
\* that name matched.
C2_CustomerForcesCategory ==
    Returned =>
        /\ result.customer # None =>
              /\ result.category = "Customer Meeting"
              /\ frame.category_confidence = 85
        /\ (result.customer = None /\ result.category = "Customer Meeting") =>
              \E t \in 1..Len(data.meeting_types) :
                  /\ data.meeting_types[t].name = "Customer Meeting"
                  /\ RuleMatches(data.meeting_types[t], frame.combined_text)

\* C2 witness: a customer is returned for an event whose text holds a keyword of
\* another category and whose attendees are all internal
C2_Witness ==
    /\ Returned
    /\ result.customer # None
    /\ \E t \in 1..Len(data.meeting_types) :
          /\ data.meeting_types[t].name # "Customer Meeting"
          /\ RuleMatches(data.meeting_types[t], frame.combined_text)
    /\ event.attendees # <<>>
    /\ \A a \in 1..Len(event.attendees) : DomainOf(event.attendees[a]) \in InternalAllowList

\* C3: the confidence returned is customer_confidence * 0.6 + category_confidence
\* * 0.4 when a customer was found, category_confidence alone otherwise, and lies
\* in [0, 1] (in thousandths: 0..1000).
C3_WeightedConfidence ==
    Returned =>
        /\ result.confidence =
              IF result.customer # None
              THEN frame.customer_confidence * 6 + frame.category_confidence * 4
              ELSE frame.category_confidence * 10
        /\ result.confidence \in 0..1000

\* the (entry, name) pairs a scan over a list of customers or projects visits:
\* entry e of the list, and name n of its name followed by its aliases
NamePairs(entries) ==
    UNION {{<<e, n>> : n \in 1..(1 + Len(entries[e].aliases))} : e \in 1..Len(entries)}

PairName(entries, p) == (<<entries[p[1]].name>> \o entries[p[1]].aliases)[p[2]]

\* the scan visits pair p before pair q
ScannedBefore(p, q) == p[1] < q[1] \/ (p[1] = q[1] /\ p[2] < q[2])

FuzzyScore(p, text) == partial_ratio(Lower(PairName(data.customers, p)), text)

\* the best fuzzy candidate F: the first pair scanned among those of the highest
\* score, when that score is at least 80 (a set of one pair, or empty)
FuzzyCandidates(text) ==
    {p \in NamePairs(data.customers) :
        /\ FuzzyScore(p, text) >= 80
        /\ \A q \in NamePairs(data.customers) :
              /\ FuzzyScore(q, text) <= FuzzyScore(p, text)
              /\ ScannedBefore(q, p) => FuzzyScore(q, text) < FuzzyScore(p, text)}

\* customer c lists the lowercased domain of the email
ListsDomain(c, email) ==
    \E d \in 1..Len(data.customers[c].domains) :
        data.customers[c].domains[d] = Lower(DomainOf(email))

\* the attendee-domain candidate D: for the first attendee email whose domain
\* some customer lists, the first customer listing it (a set of one, or empty)
DomainCandidates(emails) ==
    {c \in 1..Len(data.customers) :
        \E e \in 1..Len(emails) :
            /\ ListsDomain(c, emails[e])
            /\ \A b \in 1..(c - 1) : ~ListsDomain(b, emails[e])
            /\ \A f \in 1..(e - 1), b \in 1..Len(data.customers) : ~ListsDomain(b, emails[f])}

BracketMatches(text) ==
    \E token \in FirstBracketTokens(text) : CustomersNamed(token) # {}

PrefixMatches(text) ==
    \E p \in NamePairs(data.customers) :
        \/ StartsWith(text, Lower(PairName(data.customers, p)) \o <<" ", "-">>)
        \/ StartsWith(text, Lower(PairName(data.customers, p)) \o <<":">>)

\* the combination C4 states, of fuzzy candidates F and domain candidates D
CombinesAs(F, D, text) ==
    /\ \A f \in F, d \in D :
          data.customers[f[1]].name = data.customers[d].name =>
              frame.customer = data.customers[d].name /\ frame.customer_confidence = 90
    /\ \A d \in D :
          (\A f \in F : data.customers[f[1]].name # data.customers[d].name) =>
              frame.customer = data.customers[d].name /\ frame.customer_confidence = 75
    /\ \A f \in F :
          D = {} =>
              /\ frame.customer = data.customers[f[1]].name
              /\ frame.customer_confidence = IF FuzzyScore(f, text) >= 90 THEN 65 ELSE 50

\* C4: when neither the bracket nor the prefix pattern matches, the best fuzzy
\* candidate F (highest partial-ratio score, at least 80) and the attendee-domain
\* candidate D combine: same customer -> 0.90; D with F absent or naming another
\* customer -> D at 0.75; F alone -> 0.65 when its score is at least 90, else 0.50.
C4_FuzzyDomainCombination ==
    (Returned /\ ~BracketMatches(frame.combined_text) /\ ~PrefixMatches(frame.combined_text)) =>
        CombinesAs(FuzzyCandidates(frame.combined_text),
                   DomainCandidates(frame.attendee_emails),
                   frame.combined_text)

\* C4 witness: F and D both exist and name different customers
C4_Witness ==
    /\ Returned
    /\ ~BracketMatches(frame.combined_text)
    /\ ~PrefixMatches(frame.combined_text)
    /\ frame.customer_confidence = 75
    /\ \E f \in FuzzyCandidates(frame.combined_text), d \in DomainCandidates(frame.attendee_emails) :
          data.customers[f[1]].name # data.customers[d].name

\* meeting type s of categories.yaml is tried before meeting type t: higher
\* priority, or equal priority and declared earlier
TriedBefore(s, t) ==
    \/ data.meeting_types[s].priority > data.meeting_types[t].priority
    \/ data.meeting_types[s].priority = data.meeting_types[t].priority /\ s < t

MatchingRules(text) ==
    {t \in 1..Len(data.meeting_types) : RuleMatches(data.meeting_types[t], text)}

\* C5: with no customer detected, _detect_category returns the first category
\* rule, by descending priority and by declaration order among equal priorities,
\* that has a keyword in the combined text, at confidence 0.75.
C5_RulePriority ==
    (Returned /\ frame.customer = None) =>
        \A t \in MatchingRules(frame.combined_text) :
            (\A s \in MatchingRules(frame.combined_text) : s # t => TriedBefore(t, s)) =>
                /\ frame.category = data.meeting_types[t].name
                /\ frame.category_confidence = 75

\* C5 witness: the winning rule beats a matching rule of its own priority
\* declared after it and a matching rule of lower priority declared before it
C5_Witness ==
    /\ Returned
    /\ frame.customer = None
    /\ frame.category_confidence = 75
    /\ \E t, s, r \in MatchingRules(frame.combined_text) :
          /\ frame.category = data.meeting_types[t].name
          /\ data.meeting_types[s].priority = data.meeting_types[t].priority /\ t < s
          /\ data.meeting_types[r].priority < data.meeting_types[t].priority /\ r < t

\* C6: with no customer and no matching category rule, the category is "Internal
\* Meeting" at 0.60 exactly when there is an attendee and the domain after "@" of
\* every attendee is in the allow-list {company.com, microsoft.com}; otherwise it
\* is "Uncategorized" at 0.30.
C6_InternalIffAllowListed ==
    (Returned /\ frame.customer = None /\ MatchingRules(frame.combined_text) = {}) =>
        IF /\ frame.attendee_emails # <<>>
           /\ \A e \in 1..Len(frame.attendee_emails) :
                 DomainOf(frame.attendee_emails[e]) \in InternalAllowList
        THEN frame.category = "Internal Meeting" /\ frame.category_confidence = 60
        ELSE frame.category = "Uncategorized" /\ frame.category_confidence = 30

ActivePairs == {p \in NamePairs(data.projects) : data.projects[p[1]].active}

IsSubstring(p, text) == Contains(text, Lower(PairName(data.projects, p)))

Qualifies(p, text) ==
    \/ IsSubstring(p, text)
    \/ partial_ratio(Lower(PairName(data.projects, p)), text) >= 85

\* the first (project, name) pair over the active projects that qualifies
FirstQualifying(text) ==
    {p \in ActivePairs :
        /\ Qualifies(p, text)
        /\ \A q \in ActivePairs : ScannedBefore(q, p) => ~Qualifies(q, text)}

\* C7: _detect_project returns the first (project, name) pair, over the active
\* projects in declaration order and each project's name then aliases, whose
\* lowercased name is a substring of the text (0.85) or else has a partial ratio
\* of at least 85 (0.70); never an inactive project; null at 0 when none qualifies.
C7_FirstActiveProject ==
    Returned =>
        /\ \A p \in FirstQualifying(frame.combined_text) :
              /\ frame.project = data.projects[p[1]].name
              /\ frame.project_confidence = IF IsSubstring(p, frame.combined_text) THEN 85 ELSE 70
        /\ FirstQualifying(frame.combined_text) = {} =>
              frame.project = None /\ frame.project_confidence = 0
        /\ frame.project # None =>
              \E p \in 1..Len(data.projects) :
                  data.projects[p].active /\ data.projects[p].name = frame.project

\* C7 witness: an inactive project declared first is named in the text, and an
\* active project declared after it is returned on a fuzzy match
C7_Witness ==
    /\ Returned
    /\ frame.project # None
    /\ frame.project_confidence = 70
    /\ \E q \in NamePairs(data.projects) :
          /\ ~data.projects[q[1]].active
          /\ IsSubstring(q, frame.combined_text)
          /\ \A p \in FirstQualifying(frame.combined_text) : ScannedBefore(q, p)

\* the reasons of the stages that produced one, in the order customer, project,
\* category
StageReasons ==
    SelectSeq(<<frame.customer_reason, frame.project_reason, frame.category_reason>>,
              LAMBDA reason : reason # <<>>)

\* no customer, no project, and the category fell through to the default
NoStageFired ==
    /\ frame.customer = None
    /\ frame.project = None
    /\ frame.category = "Uncategorized"
    /\ frame.category_confidence = 30

\* C8: the rationale is the reasons of the customer, project and category stages
\* in that order, joined by "; "; when no stage fires it is the sentinel "No
\* clear patterns detected".
C8_RationaleTrail ==
    Returned =>
        IF NoStageFired
        THEN result.reasoning = <<"No clear patterns detected">>
        ELSE result.reasoning = Join(StageReasons, <<"; ">>)

C10_EmptyRecord ==
    (/\ Returned
     /\ event.subject = <<>>
     /\ event.body \in {None, <<>>}
     /\ event.attendees = <<>>
     /\ event.categories = <<>>) =>
        /\ result.customer = None
        /\ result.project = None
        /\ result.category = "Uncategorized"
        /\ result.confidence = 300

(***************************************************************************)
(* The review.  records is what the calendar client delivered, as the      *)
(* keyword arguments of CalendarEvent; the driver (demo.py,                *)
(* interactive_demo.py) constructs and classifies the events, and the      *)
(* reviewer then edits the CategorizedEvent objects in categorized, one    *)
(* menu action at a time.                                                  *)
(***************************************************************************)
\* the keyword arguments of one CalendarEvent; a duration_hours of 0 is the
\* default of an argument not given
EventData(id, subject, start, end, duration_hours) ==
    [id |-> id, subject |-> subject, body |-> None, attendees |-> <<>>, categories |-> <<>>,
     start |-> start, end |-> end, duration_hours |-> duration_hours]

\* <<start, end, duration_hours>>: half an hour, no time at all, an end before
\* the start, and a duration given that is not end - start
Spans == {<<0, 30, 0>>, <<60, 60, 0>>, <<60, 0, 0>>, <<0, 60, 90>>}

FirstRecords ==
    {EventData("e1", subject, span[1], span[2], span[3]) :
        subject \in {<<>>, <<"[", "a", "]", "B", "a">>}, span \in Spans}

\* a second record, whose id may be that of the first
SecondRecords == {EventData(id, <<"a", ":">>, 30, 90, 0) : id \in {"e1", "e2"}}

RecordLists == {<<r>> : r \in FirstRecords} \cup (FirstRecords \X SecondRecords)

ReviewTaxonomies == {TaxonomyOffice, TaxonomyEmpty}

\* the numbers a user enters at an IntPrompt: 0 cancels
Choices == 0..MaxChoice

\* the numbers a user enters at a FloatPrompt for minutes
Minutes == {-15, 0, 30, 90}

\* the loop of demo.py lines 24-38 over the events
RECURSIVE CategorizeAll(_, _, _)
CategorizeAll(cfg, clf, raw) ==
    IF raw = <<>> THEN <<>>
    ELSE <<CategorizedEvent(CalendarEvent__init__(Head(raw)),
                            classify(cfg, clf, CalendarEvent__init__(Head(raw))))>>
             \o CategorizeAll(cfg, clf, Tail(raw))

InitReview ==
    /\ data \in ReviewTaxonomies
    /\ config = ConfigLoader(data)
    /\ classifier = RuleBasedClassifier(config)
    /\ event = CalendarEvent(<<>>, None, <<>>, <<>>)
    /\ result = NoResult
    /\ frame = NoFrame
    /\ log = <<>>
    /\ pc = "fetched"
    /\ records \in RecordLists
    /\ categorized = <<>>
    /\ reviewer = InteractiveReviewer(config)
    /\ calculator = TimeAllocationCalculator
    /\ report = NoReport
    /\ history = NoHistory

\* the events are constructed and classified; the review begins
Categorize ==
    /\ pc = "fetched"
    /\ categorized' = CategorizeAll(config, classifier, records)
    /\ history' = [history EXCEPT !.fresh = categorized']
    /\ pc' = "review"
    /\ UNCHANGED <<data, config, classifier, event, result, frame, log,
                   records, reviewer, calculator, report>>

\* one menu action of _review_single_meeting on event i: out is what the method
\* called leaves
Edit(i, method, out) ==
    /\ pc \in {"review", "live"}
    /\ history.edits < MaxEdits
    /\ categorized' = [categorized EXCEPT ![i] = out.event]
    /\ reviewer' = [reviewer EXCEPT !.adjustments = out.adjustments]
    /\ history' = [history EXCEPT !.edits = @ + 1,
                                  !.last = [method |-> method, index |-> i, raised |-> FALSE],
                                  !.overrides =
                                      @ \o [k \in 1..Len(out.saved) |->
                                                [index |-> i, call |-> out.saved[k]]],
                                  !.edited = IF out.saved # <<>> THEN @ \cup {i} ELSE @]
    /\ UNCHANGED <<data, config, classifier, event, result, frame, log, pc,
                   records, calculator, report>>

ChangeCustomer(i, choice) ==
    Edit(i, "_change_customer",
         _change_customer(reviewer.config, reviewer.adjustments, categorized[i], choice))

ChangeProject(i, choice) ==
    Edit(i, "_change_project",
         _change_project(reviewer.config, reviewer.adjustments, categorized[i], choice))

ChangeCategory(i, choice) ==
    Edit(i, "_change_category",
         _change_category(reviewer.config, reviewer.adjustments, categorized[i], choice))

AddPrepTime(i, minutes) ==
    Edit(i, "_add_prep_time", _add_prep_time(reviewer.adjustments, categorized[i], minutes))

AddFollowupTime(i, minutes) ==
    Edit(i, "_add_followup_time",
         _add_followup_time(reviewer.adjustments, categorized[i], minutes))

NextReview ==
    \/ Categorize
    \/ \E i \in 1..Len(categorized), choice \in Choices : ChangeCustomer(i, choice)
    \/ \E i \in 1..Len(categorized), choice \in Choices : ChangeProject(i, choice)
    \/ \E i \in 1..Len(categorized), choice \in Choices : ChangeCategory(i, choice)
    \/ \E i \in 1..Len(categorized), minutes \in Minutes : AddPrepTime(i, minutes)
    \/ \E i \in 1..Len(categorized), minutes \in Minutes : AddFollowupTime(i, minutes)

SpecReview == InitReview /\ [][NextReview]_vars

\* a caller records an override with the reviewer directly
SaveAdjustment(override) ==
    /\ pc = "review"
    /\ history.edits < MaxEdits
    /\ reviewer' = [reviewer EXCEPT !.adjustments =
                       _save_adjustment(@, override.id, override.field :> override.value)]
    /\ history' = [history EXCEPT !.edits = @ + 1,
                                  !.last = [method |-> "_save_adjustment", index |-> 0,
                                            raised |-> FALSE],
                                  !.overrides = Append(@, [index |-> 0, call |-> override])]
    /\ UNCHANGED <<data, config, classifier, event, result, frame, log, pc,
                   records, categorized, calculator, report>>

\* overrides a caller may record: known and unknown fields, ids of events and an
\* id of no event
RecordedOverrides ==
    {[id |-> id, field |-> "customer", value |-> <<"A">>] : id \in {"e1", "e9"}}
    \cup {[id |-> id, field |-> "prep_time_hours", value |-> m] : id \in {"e1", "e9"}, m \in {30, 90}}
    \cup {[id |-> id, field |-> "colour", value |-> <<"r", "e", "d">>] : id \in {"e1", "e9"}}

NextRecord == Categorize \/ \E override \in RecordedOverrides : SaveAdjustment(override)

SpecRecord == InitReview /\ [][NextRecord]_vars

(***************************************************************************)
(* The claims on the review.                                               *)
(***************************************************************************)
Reviewing == pc = "review"

\* the fields of a CategorizedEvent the reviewer sets
ReviewFields == {"customer", "project", "category", "prep_time_hours", "followup_time_hours"}

\* C11: through every sequence of reviewer edits of freshly classified events,
\* total_hours is duration_hours + prep_time_hours + followup_time_hours and is
\* at least duration_hours: prep and follow-up hours never become negative.
C11_TotalHours ==
    Reviewing =>
        \A i \in 1..Len(categorized) :
            /\ total_hours(categorized[i]) =
                  categorized[i].event.duration_hours + categorized[i].prep_time_hours
                      + categorized[i].followup_time_hours
            /\ total_hours(categorized[i]) >= categorized[i].event.duration_hours
            /\ categorized[i].prep_time_hours >= 0
            /\ categorized[i].followup_time_hours >= 0

\* C11 witness: prep time and follow-up time were both set on an event
C11_Witness ==
    /\ Reviewing
    /\ history.edits = 2
    /\ \E i \in 1..Len(categorized) :
          /\ categorized[i].prep_time_hours = 90
          /\ categorized[i].followup_time_hours = 30
          /\ total_hours(categorized[i]) = categorized[i].event.duration_hours + 120

\* C12: every CalendarEvent constructed has duration_hours = end - start, in
\* hours, and at least 0; a record with end < start is not turned into an event
\* of negative duration.
C12_DurationIsSpan ==
    Reviewing =>
        \A i \in 1..Len(categorized) :
            /\ categorized[i].event.duration_hours =
                  categorized[i].event.end - categorized[i].event.start
            /\ categorized[i].event.duration_hours >= 0

\* C13: an event a manual edit was applied to (customer, project, category,
\* prep time or follow-up time) has classification_method "manual"; an event
\* whose classification_method is still "rules" has every field as classified.
C13_EditsAreManual ==
    Reviewing =>
        \A i \in 1..Len(categorized) :
            /\ i \in history.edited => categorized[i].classification_method = "manual"
            /\ categorized[i].classification_method = "rules" =>
                  \A f \in ReviewFields : categorized[i][f] = history.fresh[i][f]

\* the field a reviewer method sets
EditedField(method) ==
    CASE method = "_change_customer" -> "customer"
      [] method = "_change_project" -> "project"
      [] method = "_change_category" -> "category"
      [] method = "_add_prep_time" -> "prep_time_hours"
      [] method = "_add_followup_time" -> "followup_time_hours"
      [] OTHER -> "none"

\* C14: no reviewer edit changes an event's confidence, its notes or the
\* calendar event under it, and an edit of one field of one event leaves the
\* other customer, project, category, prep and follow-up fields as they were.
C14_EditsLeaveTheRest ==
    [][(pc = "review" /\ pc' = "review") =>
          \A i \in 1..Len(categorized) :
              /\ categorized'[i].confidence = categorized[i].confidence
              /\ categorized'[i].notes = categorized[i].notes
              /\ categorized'[i].event = categorized[i].event
              /\ \A f \in ReviewFields :
                    (i # history'.last.index \/ f # EditedField(history'.last.method)) =>
                        categorized'[i][f] = categorized[i][f]]_vars

\* C14 witness: of two events, one had its project and then its customer changed
\* and still has the project chosen
C14_Witness ==
    /\ Reviewing
    /\ Len(categorized) = 2
    /\ Len(history.overrides) = 2
    /\ history.overrides[1].call.field = "project"
    /\ history.overrides[2].call.field = "customer"
    /\ history.overrides[1].index = history.overrides[2].index
    /\ history.overrides[1].call.value # None
    /\ categorized[history.overrides[1].index].project = history.overrides[1].call.value
    /\ categorized[history.overrides[2].index].customer = history.overrides[2].call.value

\* the calls of _save_adjustment so far, by position, made for a field of an id
WritesOf(id, field) ==
    {k \in 1..Len(history.overrides) :
        history.overrides[k].call.id = id /\ history.overrides[k].call.field = field}

\* the last of a non-empty set of positions
LastOf(ks) == CHOOSE k \in ks : \A j \in ks : j <= k

\* C15: the adjustments entry of an event id holds, for every field, the value
\* of the last override written for that id and field, and holds no field that
\* no override was written for (writing one field keeps the others); and an
\* override that repeats the one before it, on the same event, leaves the events
\* and the adjustments as the first left them.
C15_LastWriteWins ==
    /\ [](Reviewing =>
            \A i \in 1..Len(categorized) : \A f \in ReviewFields :
                LET id == categorized[i].event.id
                    ws == WritesOf(id, f)
                IN  IF ws = {}
                    THEN ~(id \in DOMAIN reviewer.adjustments
                             /\ f \in DOMAIN reviewer.adjustments[id])
                    ELSE /\ id \in DOMAIN reviewer.adjustments
                         /\ f \in DOMAIN reviewer.adjustments[id]
                         /\ reviewer.adjustments[id][f]
                               = history.overrides[LastOf(ws)].call.value)
    /\ [][(/\ Len(history.overrides) >= 1
           /\ Len(history'.overrides) = Len(history.overrides) + 1
           /\ history'.overrides[Len(history'.overrides)]
                 = history.overrides[Len(history.overrides)])
          => (categorized' = categorized /\ reviewer' = reviewer)]_vars

\* C15 witness: two overrides of different fields were written for one event,
\* and the entry of its id holds both
C15_Witness ==
    /\ Reviewing
    /\ Len(history.overrides) = 2
    /\ history.overrides[1].call.id = history.overrides[2].call.id
    /\ history.overrides[1].call.field = "prep_time_hours"
    /\ history.overrides[2].call.field = "customer"
    /\ history.overrides[1].call.id \in DOMAIN reviewer.adjustments
    /\ DOMAIN reviewer.adjustments[history.overrides[1].call.id]
          = {"prep_time_hours", "customer"}
    /\ reviewer.adjustments[history.overrides[1].call.id]["prep_time_hours"]
          = history.overrides[1].call.value

\* C16: recording an override for a field that is none of the five known fails
\* with an invalid-override error and leaves the adjustments as they were;
\* recording known fields for an id of no event does not fail.
C16_UnknownFieldFails ==
    [][(/\ history'.last.method = "_save_adjustment"
        /\ Len(history'.overrides) = Len(history.overrides) + 1)
       => LET call == history'.overrides[Len(history'.overrides)].call
          IN  IF call.field \in ReviewFields
              THEN ~history'.last.raised
              ELSE /\ history'.last.raised
                   /\ reviewer'.adjustments = reviewer.adjustments]_vars

(***************************************************************************)
(* The reports.  categorized holds the CategorizedEvent objects there are; *)
(* calculator.events holds references to them (positions in categorized),  *)
(* in the order add_events received them, an object as often as it was     *)
(* added.  report is what the last query returned.                         *)
(***************************************************************************)
\* a CategorizedEvent of the given fields, prep time set as the review sets it
Sample(id, customer, project, category, minutes, prep) ==
    [CategorizedEvent(CalendarEvent__init__(EventData(id, <<>>, 0, minutes, 0)),
                      [customer |-> customer, project |-> project, category |-> category,
                       confidence |-> 0, reasoning |-> <<>>, source |-> "rules"])
        EXCEPT !.prep_time_hours = prep]

\* events with and without customer and project, of customers and projects
\* that are empty strings or carry the names of the defaults, with equal and
\* different hours, one of them of no time at all
Samples ==
    <<Sample("e1", None, None, "Internal Meeting", 60, 0),
      Sample("e2", <<"A">>, <<"B", "b">>, "Customer Meeting", 30, 30),
      Sample("e3", <<"B", "a">>, None, "Customer Meeting", 90, 0),
      Sample("e4", <<"A">>, None, "Review", 30, 0),
      Sample("e5", <<>>, <<>>, "Uncategorized", 30, 0),
      Sample("e6", Internal, General, "Internal Meeting", 0, 0),
      Sample("e7", <<"a">>, <<"B", "b">>, "Review", 60, 0)>>

\* the lists add_events is called with: one or two of the events
Batches ==
    {<<i>> : i \in 1..Len(categorized)}
        \cup {<<i, j>> : i \in 1..Len(categorized), j \in 1..Len(categorized)}

\* self.events of a calculator that holds copies of the events as classified
held_as_classified ==
    [k \in 1..Len(calculator.events) |-> history.fresh[calculator.events[k]]]

\* self.events, the objects the references stand for
Held == [k \in 1..Len(calculator.events) |-> categorized[calculator.events[k]]]

InitCalc ==
    /\ data = TaxonomyOffice
    /\ config = ConfigLoader(data)
    /\ classifier = RuleBasedClassifier(config)
    /\ event = CalendarEvent(<<>>, None, <<>>, <<>>)
    /\ result = NoResult
    /\ frame = NoFrame
    /\ log = <<>>
    /\ pc = "report"
    /\ records = <<>>
    /\ categorized = Samples
    /\ reviewer = InteractiveReviewer(config)
    /\ calculator = TimeAllocationCalculator
    /\ report = NoReport
    /\ history = NoHistory

Query(name, customer, value) ==
    /\ pc \in {"report", "live"}
    /\ report' = [query |-> name, customer |-> customer, value |-> value]
    /\ UNCHANGED <<data, config, classifier, event, result, frame, log, pc,
                   records, categorized, reviewer, calculator, history>>

AddEvents(batch) ==
    /\ pc \in {"report", "live"}
    /\ Len(calculator.events) + Len(batch) <= MaxHeld
    /\ calculator' = add_events(calculator, batch)
    /\ UNCHANGED <<data, config, classifier, event, result, frame, log, pc,
                   records, categorized, reviewer, report, history>>

GetTotalMeetingHours == Query("get_total_meeting_hours", None, get_total_meeting_hours(Held))

GetByCustomer == Query("get_by_customer", None, get_by_customer(Held))

GetByCategory == Query("get_by_category", None, get_by_category(Held))

GetByCustomerAndProject ==
    Query("get_by_customer_and_project", None, get_by_customer_and_project(Held))

\* demo.py lines 59-65: the percentage of the customer of a bucket of
\* get_by_customer
GetCustomerPercentage(customer) ==
    /\ \E k \in 1..Len(get_by_customer(Held)) : get_by_customer(Held)[k].customer = customer
    /\ Query("get_customer_percentage", customer, get_customer_percentage(Held, customer))

GetSummaryStats == Query("get_summary_stats", None, get_summary_stats(Held))

\* the hours of a work week and the days of a period a caller gives, the hours
\* in minutes: an hour and forty minutes, forty hours
WorkHours == {100, 2400}

PeriodDays == {3, 5}

GetUnallocatedHours(work_hours_per_week, period_days) ==
    Query("get_unallocated_hours", None,
          [work_hours_per_week |-> work_hours_per_week, period_days |-> period_days,
           hours |-> get_unallocated_hours(Held, work_hours_per_week, period_days)])

\* the customer names there are among the events, and the name of the default
CustomerNames ==
    ({Internal} \cup {categorized[i].customer : i \in 1..Len(categorized)}) \ {None}

NextCalc ==
    \/ \E batch \in Batches : AddEvents(batch)
    \/ GetTotalMeetingHours
    \/ GetByCustomer
    \/ GetByCategory
    \/ GetByCustomerAndProject
    \/ \E customer \in CustomerNames : GetCustomerPercentage(customer)
    \/ GetSummaryStats
    \/ \E work_hours_per_week \in WorkHours, period_days \in PeriodDays :
          GetUnallocatedHours(work_hours_per_week, period_days)

SpecCalc == InitCalc /\ [][NextCalc]_vars

(***************************************************************************)
(* review_meetings, meeting by meeting.  history holds in addition the     *)
(* meeting _review_single_meeting is in (0: none), the last meeting it was *)
(* in, and the event and the adjustments as they were when it began.       *)
(***************************************************************************)
NoMeeting ==
    [meeting |-> 0, reviewed |-> 0, began |-> [event |-> None, adjustments |-> EmptyDict]]
        @@ NoHistory

InitMeeting ==
    /\ data \in ReviewTaxonomies
    /\ config = ConfigLoader(data)
    /\ classifier = RuleBasedClassifier(config)
    /\ event = CalendarEvent(<<>>, None, <<>>, <<>>)
    /\ result = NoResult
    /\ frame = NoFrame
    /\ log = <<>>
    /\ pc = "fetched"
    /\ records \in RecordLists
    /\ categorized = <<>>
    /\ reviewer = InteractiveReviewer(config)
    /\ calculator = TimeAllocationCalculator
    /\ report = NoReport
    /\ history = NoMeeting

\* "Review this meeting?" is answered yes for a meeting after those reviewed
ReviewSingleMeeting(i) ==
    /\ pc = "review"
    /\ history.meeting = 0
    /\ i > history.reviewed
    /\ history' = [history EXCEPT !.meeting = i,
                                  !.reviewed = i,
                                  !.last = [method |-> "_review_single_meeting", index |-> i,
                                            raised |-> FALSE],
                                  !.began = [event |-> categorized[i],
                                             adjustments |-> reviewer.adjustments]]
    /\ UNCHANGED <<data, config, classifier, event, result, frame, log, pc,
                   records, categorized, reviewer, calculator, report>>

\* action "ok" or "skip": break
Leave(action) ==
    /\ pc = "review"
    /\ history.meeting # 0
    /\ history' = [history EXCEPT !.meeting = 0,
                                  !.last = [method |-> action, index |-> history.meeting,
                                            raised |-> FALSE]]
    /\ UNCHANGED <<data, config, classifier, event, result, frame, log, pc,
                   records, categorized, reviewer, calculator, report>>

NextMeeting ==
    \/ Categorize
    \/ \E i \in 1..Len(categorized) : ReviewSingleMeeting(i)
    \/ \E choice \in Choices : history.meeting # 0 /\ ChangeCustomer(history.meeting, choice)
    \/ \E choice \in Choices : history.meeting # 0 /\ ChangeProject(history.meeting, choice)
    \/ \E choice \in Choices : history.meeting # 0 /\ ChangeCategory(history.meeting, choice)
    \/ \E minutes \in Minutes : history.meeting # 0 /\ AddPrepTime(history.meeting, minutes)
    \/ \E minutes \in Minutes :
          history.meeting # 0 /\ AddFollowupTime(history.meeting, minutes)
    \/ \E action \in {"ok", "skip"} : Leave(action)

SpecMeeting == InitMeeting /\ [][NextMeeting]_vars

(***************************************************************************)
(* The review and the reports together, as interactive_demo.py has them:   *)
(* the reviewer edits the objects the calculator holds.                    *)
(***************************************************************************)
\* one event, which add_events may receive more than once
LiveEvents == <<Sample("e1", None, None, "Internal Meeting", 60, 0)>>

InitLive ==
    /\ data = TaxonomyOffice
    /\ config = ConfigLoader(data)
    /\ classifier = RuleBasedClassifier(config)
    /\ event = CalendarEvent(<<>>, None, <<>>, <<>>)
    /\ result = NoResult
    /\ frame = NoFrame
    /\ log = <<>>
    /\ pc = "live"
    /\ records = <<>>
    /\ categorized = LiveEvents
    /\ reviewer = InteractiveReviewer(config)
    /\ calculator = TimeAllocationCalculator
    /\ report = NoReport
    /\ history = [NoHistory EXCEPT !.fresh = LiveEvents]

NextLive ==
    \/ \E batch \in Batches : AddEvents(batch)
    \/ \E i \in 1..Len(categorized), choice \in Choices : ChangeCustomer(i, choice)
    \/ \E i \in 1..Len(categorized), choice \in Choices : ChangeProject(i, choice)
    \/ \E i \in 1..Len(categorized), choice \in Choices : ChangeCategory(i, choice)
    \/ \E i \in 1..Len(categorized), minutes \in Minutes : AddPrepTime(i, minutes)
    \/ \E i \in 1..Len(categorized), minutes \in Minutes : AddFollowupTime(i, minutes)
    \/ GetTotalMeetingHours
    \/ GetByCustomer
    \/ GetByCategory
    \/ GetByCustomerAndProject
    \/ \E customer \in CustomerNames : GetCustomerPercentage(customer)
    \/ GetSummaryStats
    \/ \E work_hours_per_week \in WorkHours, period_days \in PeriodDays :
          GetUnallocatedHours(work_hours_per_week, period_days)

SpecLive == InitLive /\ [][NextLive]_vars

(***************************************************************************)
(* The filling of the unallocated time, prompt by prompt.  pc is the       *)
(* prompt fill_unallocated_time waits at ("idle": no call in progress),    *)
(* frame holds the locals of the call, report what the last call that      *)
(* returned has returned.  history holds the number of calls, the step    *)
(* taken last, the selections of the call in order, each with the          *)
(* percentage entered (asked: it was entered) and the percentage granted,  *)
(* the number of choices skipped as invalid, and background_allocations as *)
(* it was when the call began.                                             *)
(***************************************************************************)
NoSessions ==
    [calls |-> 0,
     last |-> [method |-> "none", raised |-> FALSE],
     selections |-> <<>>,
     skipped |-> 0,
     before |-> EmptyDict]

\* a meeting of thirty hours and one of ten
FillEvents ==
    <<Sample("e1", None, None, "Internal Meeting", 1800, 0),
      Sample("e2", <<"A">>, None, "Customer Meeting", 600, 0)>>

\* the percentages a user enters at the FloatPrompt
Percentages == {-50, 30, 50, 60, 150}

InitFill ==
    /\ data \in ReviewTaxonomies
    /\ config = ConfigLoader(data)
    /\ classifier = RuleBasedClassifier(config)
    /\ event = CalendarEvent(<<>>, None, <<>>, <<>>)
    /\ result = NoResult
    /\ frame = NoFrame
    /\ log = <<>>
    /\ pc = "idle"
    /\ records = <<>>
    /\ categorized = FillEvents
    /\ reviewer = InteractiveReviewer(config)
    /\ calculator \in {add_events(TimeAllocationCalculator, batch) :
                          batch \in {<<>>, <<1>>, <<1, 2>>}}
    /\ report = NoReport
    /\ history = NoSessions

\* a step of a call that goes on to its next prompt
Prompts(method, at, locals, selections, skipped) ==
    /\ pc' = at
    /\ frame' = locals
    /\ reviewer' = [reviewer EXCEPT !.background_allocations = Committed(@, locals, FALSE)]
    /\ history' = [history EXCEPT !.last = [method |-> method, raised |-> FALSE],
                                  !.selections = @ \o selections,
                                  !.skipped = @ + skipped]
    /\ UNCHANGED <<data, config, classifier, event, result, log,
                   records, categorized, calculator, report>>

\* a step of a call after which fill_unallocated_time returns; saves: the
\* prompts for the background projects have returned
Returns(method, locals, value, saves, selections, skipped) ==
    /\ pc' = "idle"
    /\ frame' = locals
    /\ reviewer' = [reviewer EXCEPT !.background_allocations = Committed(@, locals, saves)]
    /\ report' = [query |-> "fill_unallocated_time", customer |-> None, value |-> value]
    /\ history' = [history EXCEPT !.last = [method |-> method, raised |-> FALSE],
                                  !.selections = @ \o selections,
                                  !.skipped = @ + skipped]
    /\ UNCHANGED <<data, config, classifier, event, result, log,
                   records, categorized, calculator>>

\* work_hours_per_week=40.0, in minutes, and period_days=5 of interactive_demo.py
DemoWorkHours == 2400

DemoPeriodDays == 5

\* fill_unallocated_time is called, as interactive_demo.py calls it, with the
\* total of the calculator
FillUnallocatedTime(work_hours_per_week, period_days) ==
    /\ pc = "idle"
    /\ history.calls < MaxCalls
    /\ LET locals == Locals(reviewer.config, get_total_meeting_hours(Held),
                            work_hours_per_week, period_days)
       IN  /\ frame' = locals
           /\ IF locals.unallocated_hours.num = 0
              THEN /\ pc' = "idle"
                   /\ report' = [query |-> "fill_unallocated_time", customer |-> None,
                                 value |-> EmptyDict]
              ELSE /\ pc' = "confirm"
                   /\ report' = report
    /\ history' = [calls |-> history.calls + 1,
                   last |-> [method |-> "fill_unallocated_time", raised |-> FALSE],
                   selections |-> <<>>,
                   skipped |-> 0,
                   before |-> reviewer.background_allocations]
    /\ UNCHANGED <<data, config, classifier, event, result, log,
                   records, categorized, reviewer, calculator>>

\* the answer to "Would you like to allocate this time ...?"
AnswerConfirm(answer) ==
    /\ pc = "confirm"
    /\ IF answer
       THEN Prompts("Confirm.ask", "count", frame, <<>>, 0)
       ELSE Returns("Confirm.ask", frame, EmptyDict, FALSE, <<>>, 0)

\* the answer to "How many projects/customers?"
AnswerCount(num_items) ==
    /\ pc = "count"
    /\ LET locals == [frame EXCEPT !.num_items = num_items]
       IN  IF num_items <= 0
           THEN Returns("IntPrompt.ask", locals, locals.allocations, TRUE, <<>>, 0)
           ELSE Prompts("IntPrompt.ask", "select", locals, <<>>, 0)

\* the answer to "Select number" for item i
AnswerChoice(choice) ==
    /\ pc = "select"
    /\ IF choice < 1 \/ choice > Len(frame.options)
       THEN IF LastItem(frame)
            THEN Returns("IntPrompt.ask", frame, frame.allocations, TRUE, <<>>, 1)
            ELSE Prompts("IntPrompt.ask", "select", Continued(frame), <<>>, 1)
       ELSE LET locals == [frame EXCEPT !.item_name = frame.options[choice]]
            IN  IF frame.i = frame.num_items - 1
                THEN Returns("IntPrompt.ask",
                             Allot(locals, locals.remaining_percentage),
                             Allot(locals, locals.remaining_percentage).allocations,
                             TRUE,
                             <<[i |-> frame.i, item_name |-> locals.item_name,
                                asked |-> FALSE, entered |-> 0,
                                granted |-> locals.remaining_percentage]>>,
                             0)
                ELSE Prompts("IntPrompt.ask", "percent", locals, <<>>, 0)

\* the answer to "Percentage of time" for item i
AnswerPercentage(percentage) ==
    /\ pc = "percent"
    /\ LET granted == Clamped(percentage, frame.remaining_percentage)
           selection == <<[i |-> frame.i, item_name |-> frame.item_name,
                           asked |-> TRUE, entered |-> percentage, granted |-> granted]>>
       IN  IF Broke(Allot(frame, granted))
           THEN Returns("FloatPrompt.ask", Allot(frame, granted),
                        Allot(frame, granted).allocations, TRUE, selection, 0)
           ELSE Prompts("FloatPrompt.ask", "select", Continued(Allot(frame, granted)),
                        selection, 0)

\* a prompt raises or is interrupted: the call is left without a return
Abandon ==
    /\ pc \in {"confirm", "count", "select", "percent"}
    /\ pc' = "idle"
    /\ reviewer' = [reviewer EXCEPT !.background_allocations = Committed(@, frame, FALSE)]
    /\ history' = [history EXCEPT !.last = [method |-> "raise", raised |-> TRUE]]
    /\ UNCHANGED <<data, config, classifier, event, result, frame, log,
                   records, categorized, calculator, report>>

NextFill ==
    \/ FillUnallocatedTime(DemoWorkHours, DemoPeriodDays)
    \/ \E answer \in BOOLEAN : AnswerConfirm(answer)
    \/ \E num_items \in 0..MaxItems : AnswerCount(num_items)
    \/ \E choice \in Choices : AnswerChoice(choice)
    \/ \E percentage \in Percentages : AnswerPercentage(percentage)
    \/ Abandon

SpecFill == InitFill /\ [][NextFill]_vars

(***************************************************************************)
(* The claims on the reports.                                              *)
(***************************************************************************)
Reporting == pc = "report"

\* report is what the query named returns of the events held now
Reported(name, value) == report.query = name /\ report.value = value

RECURSIVE SumOf(_, _)
SumOf(buckets, field) ==
    IF buckets = <<>> THEN 0 ELSE Head(buckets)[field] + SumOf(Tail(buckets), field)

\* how often a value stands in a list
Count(xs, x) == Cardinality({k \in 1..Len(xs) : xs[k] = x})

\* every event of the list is a member of exactly one bucket, as often as it
\* is in the list, the buckets hold nothing else, and the counts and the hours
\* of the buckets sum to those of the list
Partitions(buckets, events) ==
    /\ \A k \in 1..Len(events) :
          \E b \in 1..Len(buckets) :
              /\ Count(buckets[b].events, events[k]) = Count(events, events[k])
              /\ \A c \in 1..Len(buckets) : c # b => Count(buckets[c].events, events[k]) = 0
    /\ \A b \in 1..Len(buckets) : \A j \in 1..Len(buckets[b].events) :
          Count(events, buckets[b].events[j]) > 0
    /\ SumOf(buckets, "meeting_count") = Len(events)
    /\ SumOf(buckets, "total_hours") = get_total_meeting_hours(events)

\* C17: for the list of events a calculator holds, get_by_customer,
\* get_by_category and get_by_customer_and_project each partition the events:
\* every event is in exactly one bucket, the meeting_count of the buckets sum
\* to the number of events and their total_hours to get_total_meeting_hours().
C17_Partition ==
    Reporting =>
        /\ Partitions(get_by_customer(Held), Held)
        /\ Partitions(get_by_category(Held), Held)
        /\ Partitions(get_by_customer_and_project(Held), Held)

\* C17 witness: three events held were reported by customer and project in two
\* buckets
C17_Witness ==
    /\ Reporting
    /\ Len(Held) = MaxHeld
    /\ Reported("get_by_customer_and_project", get_by_customer_and_project(Held))
    /\ Len(report.value) = 2
    /\ \E b \in 1..Len(report.value) : report.value[b].meeting_count = 2

\* the position at which a key first appears in the list of keys
FirstAppearance(keys, key) == First({k \in 1..Len(keys) : keys[k] = key})

\* one bucket per distinct key, holding the events of that key in their order
OneBucketPerKey(buckets, events, keys, KeyOf(_)) ==
    /\ {KeyOf(buckets[b]) : b \in 1..Len(buckets)} = {keys[k] : k \in 1..Len(keys)}
    /\ \A b, c \in 1..Len(buckets) : KeyOf(buckets[b]) = KeyOf(buckets[c]) => b = c
    /\ \A b \in 1..Len(buckets) :
          /\ buckets[b].meeting_count = Count(keys, KeyOf(buckets[b]))
          /\ \A j \in 1..Len(buckets[b].events) :
                \E k \in 1..Len(events) :
                    events[k] = buckets[b].events[j] /\ keys[k] = KeyOf(buckets[b])

\* total_hours descending, buckets of equal total_hours in the order in which
\* their keys first appear
ByHoursThenAppearance(buckets, keys, KeyOf(_)) ==
    \A b, c \in 1..Len(buckets) :
        b < c =>
            \/ buckets[b].total_hours > buckets[c].total_hours
            \/ /\ buckets[b].total_hours = buckets[c].total_hours
               /\ FirstAppearance(keys, KeyOf(buckets[b]))
                     < FirstAppearance(keys, KeyOf(buckets[c]))

CustomerOf(bucket) == bucket.customer

CategoryOf(bucket) == bucket.category

\* the customer, or "Internal" when the customer is null
KeyWhenNull(e) == IF e.customer = None THEN Internal ELSE e.customer

\* the customer, or "Internal" when the customer is null or the empty string
KeyWhenNullOrEmpty(e) ==
    IF e.customer = None \/ e.customer = <<>> THEN Internal ELSE e.customer

KeysOf(events, KeyOfEvent(_)) == [k \in 1..Len(events) |-> KeyOfEvent(events[k])]

CategoryKey(e) == e.category

\* get_by_category returns one bucket per distinct category, by total_hours
\* descending and then by first appearance
CategoryBuckets ==
    /\ OneBucketPerKey(get_by_category(Held), Held, KeysOf(Held, CategoryKey), CategoryOf)
    /\ ByHoursThenAppearance(get_by_category(Held), KeysOf(Held, CategoryKey), CategoryOf)

\* C18 as stated: get_by_customer returns one bucket per distinct key, the key
\* of an event its customer, or "Internal" when the customer is null, by
\* total_hours descending and then by first appearance of the key;
\* get_by_category likewise by category.
C18_KeyInternalWhenNull ==
    Reporting =>
        /\ OneBucketPerKey(get_by_customer(Held), Held, KeysOf(Held, KeyWhenNull), CustomerOf)
        /\ ByHoursThenAppearance(get_by_customer(Held), KeysOf(Held, KeyWhenNull), CustomerOf)
        /\ CategoryBuckets

\* C18: get_by_customer returns one bucket per distinct key, the key of an
\* event its customer, or "Internal" when the customer is null or the empty
\* string, by total_hours descending, buckets of equal total_hours in the order
\* in which their keys first appear; get_by_category likewise by category.
C18_KeyInternalWhenFalsy ==
    Reporting =>
        /\ OneBucketPerKey(get_by_customer(Held), Held,
                           KeysOf(Held, KeyWhenNullOrEmpty), CustomerOf)
        /\ ByHoursThenAppearance(get_by_customer(Held),
                                 KeysOf(Held, KeyWhenNullOrEmpty), CustomerOf)
        /\ CategoryBuckets

\* C18 witness: an event of an empty customer, one of no customer and one of a
\* customer were reported by customer in two buckets of equal total_hours,
\* "Internal" first
C18_Witness ==
    /\ Reporting
    /\ Len(Held) = MaxHeld
    /\ Held[1].customer = <<>>
    /\ Held[2].customer # None /\ Held[2].customer # <<>> /\ Held[2].customer # Internal
    /\ Held[3].customer = None
    /\ Reported("get_by_customer", get_by_customer(Held))
    /\ Len(report.value) = 2
    /\ report.value[1].customer = Internal
    /\ report.value[1].meeting_count = 2
    /\ report.value[1].total_hours = report.value[2].total_hours

\* the pair (customer or "Internal", project or "General") of an event
PairKey(e) ==
    <<IF e.customer = None \/ e.customer = <<>> THEN Internal ELSE e.customer,
      IF e.project = None \/ e.project = <<>> THEN General ELSE e.project>>

\* the pair of a bucket, whose project is null for "General"
PairOf(bucket) ==
    <<bucket.customer, IF bucket.project = None THEN General ELSE bucket.project>>

\* C19: get_by_customer_and_project returns one bucket per distinct pair
\* (customer or "Internal", project or "General"), by customer name ascending
\* and, among the buckets of one customer, by total_hours descending; no two
\* buckets have the same pair.
C19_PairBuckets ==
    Reporting =>
        LET buckets == get_by_customer_and_project(Held)
        IN  /\ OneBucketPerKey(buckets, Held, KeysOf(Held, PairKey), PairOf)
            /\ \A b, c \in 1..Len(buckets) :
                  b < c =>
                      \/ StrLess(buckets[b].customer, buckets[c].customer)
                      \/ /\ buckets[b].customer = buckets[c].customer
                         /\ buckets[b].total_hours >= buckets[c].total_hours

\* C19 witness: two buckets of one customer, of more and of fewer hours, stand
\* before a bucket of a later customer that has more hours than the second
C19_Witness ==
    /\ Reporting
    /\ Reported("get_by_customer_and_project", get_by_customer_and_project(Held))
    /\ Len(report.value) = 3
    /\ report.value[1].customer = report.value[2].customer
    /\ report.value[1].total_hours > report.value[2].total_hours
    /\ report.value[2].project = None
    /\ StrLess(report.value[2].customer, report.value[3].customer)
    /\ report.value[3].total_hours > report.value[2].total_hours

\* C20: for every bucket b of get_by_customer, the "Internal" bucket of the
\* events of no customer among them, get_customer_percentage(b.customer) is
\* b.total_hours / get_total_meeting_hours() * 100, and is 0 when the total is 0.
C20_BucketPercentage ==
    Reporting =>
        \A b \in 1..Len(get_by_customer(Held)) :
            LET bucket == get_by_customer(Held)[b]
                percentage == get_customer_percentage(Held, bucket.customer)
            IN  IF get_total_meeting_hours(Held) = 0
                THEN percentage.num = 0
                ELSE percentage.num * get_total_meeting_hours(Held)
                         = bucket.total_hours * 100 * percentage.den

\* the customers of the events other than the given ones
CustomersBut(events, excluded) == {events[k].customer : k \in 1..Len(events)} \ excluded

\* the figures of get_summary_stats other than customer_count: the number of
\* events, the sum of their total_hours, the mean of it, the number of distinct
\* categories, all 0 for no events
SummaryFigures(stats, events) ==
    /\ stats.total_meetings = Len(events)
    /\ stats.total_hours = SumHours(events)
    /\ IF events = <<>> THEN stats.avg_meeting_length.num = 0
       ELSE stats.avg_meeting_length.num * Len(events)
                = SumHours(events) * stats.avg_meeting_length.den
    /\ stats.avg_meeting_length.den # 0
    /\ stats.category_count = Cardinality({events[k].category : k \in 1..Len(events)})

\* C21 as stated: get_summary_stats reports the number of events, the sum of
\* their total_hours, the mean of it (0 for no events), as customer_count the
\* number of distinct customers that are not null (and not the "Internal"
\* sentinel), and the number of distinct categories.
C21_CountsNonNullCustomers ==
    Reporting =>
        /\ SummaryFigures(get_summary_stats(Held), Held)
        /\ get_summary_stats(Held).customer_count
              = Cardinality(CustomersBut(Held, {None, Internal}))

\* C21: get_summary_stats reports the number of events, the sum of their
\* total_hours, the mean of it (0 for no events), as customer_count the number
\* of distinct customers that are neither null nor the empty string nor
\* "Internal", and the number of distinct categories; for no events every
\* figure is 0.
C21_SummaryStats ==
    Reporting =>
        /\ SummaryFigures(get_summary_stats(Held), Held)
        /\ get_summary_stats(Held).customer_count
              = Cardinality(CustomersBut(Held, {None, <<>>, Internal}))
        /\ Held = <<>> =>
              /\ get_summary_stats(Held).total_meetings = 0
              /\ get_summary_stats(Held).total_hours = 0
              /\ get_summary_stats(Held).customer_count = 0
              /\ get_summary_stats(Held).category_count = 0

\* C21 witness: the summary of an event of no customer, one of an empty
\* customer and one of a customer was reported, with one customer counted
C21_Witness ==
    /\ Reporting
    /\ Len(Held) = MaxHeld
    /\ \E k \in 1..Len(Held) : Held[k].customer = None
    /\ \E k \in 1..Len(Held) : Held[k].customer = <<>>
    /\ Reported("get_summary_stats", get_summary_stats(Held))
    /\ report.value.customer_count = 1
    /\ report.value.category_count = MaxHeld
    /\ report.value.total_hours > 0

\* what the query named returns of the given events
Aggregation(query, customer, value, events) ==
    CASE query = "get_total_meeting_hours" -> get_total_meeting_hours(events)
      [] query = "get_by_customer" -> get_by_customer(events)
      [] query = "get_by_category" -> get_by_category(events)
      [] query = "get_by_customer_and_project" -> get_by_customer_and_project(events)
      [] query = "get_customer_percentage" -> get_customer_percentage(events, customer)
      [] query = "get_summary_stats" -> get_summary_stats(events)
      [] query = "get_unallocated_hours" ->
            [value EXCEPT !.hours =
                get_unallocated_hours(events, value.work_hours_per_week, value.period_days)]

\* a step in which a query returned something other than the last report
Answered ==
    /\ report'.query # "none"
    /\ \/ report'.query # report.query
       \/ report'.customer # report.customer
       \/ report'.value # report.value

Called == history.calls > 0

\* the last call of fill_unallocated_time has returned
HasReturned ==
    /\ pc = "idle"
    /\ Called
    /\ ~history.last.raised
    /\ report.query = "fill_unallocated_time"

\* the quotient q is max(0, work_hours_per_week / 5 * period_days - total)
IsUnallocated(q, total, work_hours_per_week, period_days) ==
    /\ q.den > 0
    /\ q.num >= 0
    /\ IF work_hours_per_week * period_days > WorkDays * total
       THEN q.num * WorkDays = q.den * (work_hours_per_week * period_days - WorkDays * total)
       ELSE q.num = 0

\* C23: get_unallocated_hours(w, d) is max(0, w / 5 * d - get_total_meeting_hours())
\* and never negative; fill_unallocated_time, given the total of the calculator
\* and the same w and d, computes the same figure, and when the figure is 0 it
\* returns an empty mapping without a prompt.
C23_UnallocatedHours ==
    /\ \A w \in WorkHours \cup {DemoWorkHours}, d \in PeriodDays \cup {DemoPeriodDays} :
          IsUnallocated(get_unallocated_hours(Held, w, d), SumHours(Held), w, d)
    /\ Called =>
          /\ frame.total_meeting_hours = SumHours(Held)
          /\ IsUnallocated(frame.unallocated_hours, SumHours(Held),
                           frame.work_hours_per_week, frame.period_days)
          /\ frame.unallocated_hours.num * WorkDays
                = get_unallocated_hours(Held, frame.work_hours_per_week,
                                        frame.period_days).num
                      * frame.unallocated_hours.den
          /\ frame.unallocated_hours.num = 0 =>
                /\ HasReturned
                /\ history.last.method = "fill_unallocated_time"
                /\ report.value = EmptyDict

\* C23 witness: with meetings of forty hours in a week of forty, the call
\* returned an empty mapping
C23_Witness ==
    /\ HasReturned
    /\ frame.total_meeting_hours = DemoWorkHours
    /\ get_unallocated_hours(Held, DemoWorkHours, DemoPeriodDays).num = 0
    /\ report.value = EmptyDict
    /\ history.last.method = "fill_unallocated_time"

RECURSIVE SumGranted(_)
SumGranted(selections) ==
    IF selections = <<>> THEN 0
    ELSE Head(selections).granted + SumGranted(Tail(selections))

\* a step in which a selection was granted a percentage
Selects == Len(history'.selections) = Len(history.selections) + 1

\* C24: a selection that is asked for a percentage is granted the smaller of
\* the percentage entered and the remaining budget, which is 100 less the
\* percentages granted to the selections before it; the bucket selected
\* receives granted / 100 * unallocated_hours; and once the budget is down to
\* 0 no further selection is made.
C24_GrantedWithinBudget ==
    /\ [][Selects =>
            LET selection == history'.selections[Len(history'.selections)]
                budget == Percent - SumGranted(history.selections)
            IN  /\ frame.remaining_percentage = budget
                /\ selection.asked =>
                      selection.granted
                          = IF selection.entered < budget THEN selection.entered ELSE budget
                /\ frame'.remaining_percentage = budget - selection.granted
                /\ selection.item_name \in DOMAIN frame'.allocations
                /\ frame'.allocations[selection.item_name].num * Percent
                          * frame.unallocated_hours.den
                      = selection.granted * frame.unallocated_hours.num
                            * frame'.allocations[selection.item_name].den
                /\ frame'.remaining_percentage <= 0 => pc' = "idle"]_vars
    /\ [](pc \in {"select", "percent"} => frame.remaining_percentage > 0)

\* C24 witness: of ten hours, 60 percent were granted to one bucket, then 50
\* percent were asked for another, which received 40 percent: six hours and four
C24_Witness ==
    /\ HasReturned
    /\ frame.unallocated_hours.num = 600 * frame.unallocated_hours.den
    /\ Len(history.selections) = 2
    /\ history.selections[1].entered = 60 /\ history.selections[1].granted = 60
    /\ history.selections[2].asked
    /\ history.selections[2].entered = 50 /\ history.selections[2].granted = 40
    /\ history.selections[1].item_name # history.selections[2].item_name
    /\ report.value[history.selections[1].item_name].num
          = 360 * report.value[history.selections[1].item_name].den
    /\ report.value[history.selections[2].item_name].num
          = 240 * report.value[history.selections[2].item_name].den

\* the sum of the numerators of the hours of a mapping, all over one denominator
RECURSIVE SumNum(_, _)
SumNum(allocations, names) ==
    IF names = {} THEN 0
    ELSE LET name == CHOOSE n \in names : TRUE
         IN  allocations[name].num + SumNum(allocations, names \ {name})

\* the hours of the mapping sum to no more than the unallocated hours, and so
\* does every bucket
WithinUnallocated(allocations, unallocated) ==
    /\ SumNum(allocations, DOMAIN allocations) * unallocated.den
          <= unallocated.num * Percent * unallocated.den
    /\ \A name \in DOMAIN allocations :
          allocations[name].num * unallocated.den <= unallocated.num * allocations[name].den

\* C25: whatever the number of items, the choices and the percentages entered,
\* the hours of the mapping _prompt_background_projects returns sum to no more
\* than unallocated_hours, and no bucket has more than unallocated_hours.
C25_NeverOverAllotted ==
    (HasReturned /\ report.value # EmptyDict) =>
        WithinUnallocated(report.value, frame.unallocated_hours)

\* the selections of a finished session name distinct buckets and no choice
\* was invalid
AllValidAndDistinct ==
    /\ history.skipped = 0
    /\ \A j, k \in 1..Len(history.selections) :
          history.selections[j].item_name = history.selections[k].item_name => j = k

\* the percentages granted total 100 and the hours sum to unallocated_hours
FullyAllotted ==
    /\ SumGranted(history.selections) = Percent
    /\ SumNum(report.value, DOMAIN report.value) = frame.unallocated_hours.num * Percent

\* a session of _prompt_background_projects has finished
Finished == HasReturned /\ history.last.method \in {"IntPrompt.ask", "FloatPrompt.ask"}

\* the selection of item num_items - 1 is not asked for a percentage and is
\* granted the remaining budget
FinalTakesRemainder ==
    \A k \in 1..Len(history.selections) :
        history.selections[k].i = frame.num_items - 1 =>
            /\ ~history.selections[k].asked
            /\ history.selections[k].granted
                  = Percent - SumGranted(SubSeq(history.selections, 1, k - 1))

C27_Transactional ==
    /\ [][reviewer'.background_allocations # reviewer.background_allocations =>
            /\ pc # "idle" /\ pc' = "idle"
            /\ ~history'.last.raised
            /\ report'.query = "fill_unallocated_time"
            /\ reviewer'.background_allocations = report'.value]_vars
    /\ [](pc # "idle" => reviewer.background_allocations = history.before)
    /\ []((pc = "idle" /\ Called /\ history.last.raised) =>
              reviewer.background_allocations = history.before)

\* C27 witness: a second call was abandoned at the prompt for the second item,
\* after a first selection, and the mapping of the first call is still there
C27_Witness ==
    /\ pc = "idle"
    /\ history.calls = 2
    /\ history.last.raised
    /\ history.selections # <<>>
    /\ frame.allocations # EmptyDict
    /\ history.before # EmptyDict
    /\ history.before # frame.allocations
    /\ reviewer.background_allocations = history.before

\* C29: after every call of fill_unallocated_time that has returned,
\* get_background_allocations() is the mapping the call returned, an empty
\* mapping included.
C29_AllocationsAreLastReturn ==
    HasReturned => reviewer.background_allocations = report.value

(***************************************************************************)
(* The claims on review_meetings.                                          *)
(***************************************************************************)
\* C28: when the review of a meeting is left by "skip", the event's customer,
\* project, category, prep and follow-up hours and classification_method, and
\* the adjustments, are what they were when the review of that meeting began.
C28_SkipChangesNothing ==
    (pc = "review" /\ history.meeting = 0 /\ history.last.method = "skip") =>
        /\ \A f \in ReviewFields \cup {"classification_method"} :
              categorized[history.last.index][f] = history.began.event[f]
        /\ reviewer.adjustments = history.began.adjustments

\* the events have pairwise distinct ids
DistinctIds ==
    \A i, j \in 1..Len(categorized) :
        categorized[i].event.id = categorized[j].event.id => i = j

\* C30: whatever the reviewer did over events of pairwise distinct ids, every
\* field recorded in adjustments under the id of an event has the value that
\* field has on the event now, every id in adjustments is the id of an event,
\* and an event without an entry has its customer, project, category, prep and
\* follow-up hours as classified.
C30_AdjustmentsMirrorEvents ==
    (pc = "review" /\ DistinctIds) =>
        /\ \A i \in 1..Len(categorized) :
              LET id == categorized[i].event.id
              IN  IF id \in DOMAIN reviewer.adjustments
                  THEN \A f \in DOMAIN reviewer.adjustments[id] :
                          /\ f \in ReviewFields
                          /\ reviewer.adjustments[id][f] = categorized[i][f]
                  ELSE \A f \in ReviewFields : categorized[i][f] = history.fresh[i][f]
        /\ \A id \in DOMAIN reviewer.adjustments :
              \E i \in 1..Len(categorized) : categorized[i].event.id = id

\* C30 witness: of two events of different ids the second had its follow-up
\* time set twice and was left by "ok", the entry of its id holds the later
\* value, and the first has no entry
C30_Witness ==
    /\ pc = "review"
    /\ Len(categorized) = 2
    /\ DistinctIds
    /\ history.last.method = "ok"
    /\ history.last.index = 2
    /\ Len(history.overrides) = 2
    /\ history.overrides[1].call.field = "followup_time_hours"
    /\ history.overrides[2].call.field = "followup_time_hours"
    /\ history.overrides[1].call.value # history.overrides[2].call.value
    /\ DOMAIN reviewer.adjustments = {categorized[2].event.id}
    /\ reviewer.adjustments[categorized[2].event.id]["followup_time_hours"]
          = categorized[2].followup_time_hours
    /\ categorized[2].followup_time_hours = history.overrides[2].call.value

====
